---------------------------- MODULE Spec2Model ----------------------------
(***************************************************************************)
(* Model of the fraud-scoring core of src/services/fraudEngine.ts:         *)
(* processBatchWithFeatures (grouping, per-client statistics, rolling      *)
(* window, rule engine) and calcMetrics (confusion counts, precision,      *)
(* recall, F1, rank-walk ROC-AUC), runStage3Analysis (ground truth, the    *)
(* three strategies' scores, best model), analyzeTransaction, and of       *)
(* src/App.tsx: parseCSV, the upload (handleFileUpload with                *)
(* generateBatchReport) and the live interval.                             *)
(*                                                                         *)
(* Numbers.  JavaScript numbers are IEEE-754 doubles.                      *)
(*  - amounts are whole currency units and timestamps whole minutes, so    *)
(*    sums, maxima and time differences are exact;                         *)
(*  - values printed by toFixed(k) are kept as integers in units of        *)
(*    10^-k (fraudScore 0.45 is 45, rocAuc 0.75 is 7500);                  *)
(*  - the rule score is a sum of the literals 0.3, 0.25, 0.2, 0.2, 0.1:    *)
(*    it is kept as the exact double, in units of 2^-56, and added with    *)
(*    round-to-nearest-even (DblAdd), so 0.2 + 0.1 is 0.30000000000000004; *)
(*  - mean, variance, standard deviation and z-score are kept exactly      *)
(*    (scaled integers, see Stats); where the exact value equals a rule    *)
(*    threshold and an intermediate double was rounded, the comparison     *)
(*    may go either way (FpOutcomes).                                      *)
(***************************************************************************)
EXTENDS Integers, Sequences, FiniteSets, TLC

(***************************************************************************)
(* Integer helpers                                                         *)
(***************************************************************************)
Abs(x) == IF x < 0 THEN -x ELSE x

Sgn(x) == IF x < 0 THEN -1 ELSE IF x > 0 THEN 1 ELSE 0

Min(a, b) == IF a <= b THEN a ELSE b

Max(a, b) == IF a >= b THEN a ELSE b

RECURSIVE Gcd(_, _)
Gcd(a, b) == IF b = 0 THEN a ELSE Gcd(b, a % b)

\* den is 2^k after cancelling: num/den is a dyadic rational, and (for the
\* small magnitudes of the model) exactly representable as a double.
RECURSIVE IsPow2(_)
IsPow2(m) == IF m = 1 THEN TRUE ELSE IF m % 2 = 1 THEN FALSE ELSE IsPow2(m \div 2)

IsDyadic(num, den) == IsPow2(den \div Gcd(Abs(num), den))

\* floor(sqrt(N)), by bisection on [lo, hi)
RECURSIVE SqrtBisect(_, _, _)
SqrtBisect(N, lo, hi) ==
    IF hi - lo <= 1 THEN lo
    ELSE LET mid == (lo + hi) \div 2
         IN  IF mid * mid <= N THEN SqrtBisect(N, mid, hi) ELSE SqrtBisect(N, lo, mid)

ISqrt(N) == SqrtBisect(N, 0, Min(N, 46340) + 1)

IsSquare(N) == ISqrt(N) * ISqrt(N) = N

\* floor(sqrt(N) * 10^digits): the schoolbook digit-by-digit square root,
\* root p and remainder r = (N * 100^j) - p^2 after j digits.
RECURSIVE SqrtDigit(_, _, _)
SqrtDigit(p, r, x) ==
    IF (20 * p + x + 1) * (x + 1) <= 100 * r THEN SqrtDigit(p, r, x + 1) ELSE x

RECURSIVE SqrtDigits(_, _, _)
SqrtDigits(p, r, digits) ==
    IF digits = 0 THEN p
    ELSE LET x == SqrtDigit(p, r, 0)
         IN  SqrtDigits(10 * p + x, 100 * r - (20 * p + x) * x, digits - 1)

SqrtScaled(N, digits) == SqrtDigits(ISqrt(N), N - ISqrt(N) * ISqrt(N), digits)

\* floor(num * 10^digits / den), by long division (num, den >= 0, den > 0)
RECURSIVE DivDigits(_, _, _, _)
DivDigits(q, r, den, digits) ==
    IF digits = 0 THEN q
    ELSE DivDigits(10 * q + (10 * r) \div den, (10 * r) % den, den, digits - 1)

DivScaled(num, den, digits) == DivDigits(num \div den, num % den, den, digits)

\* Number.prototype.toFixed on the exact quotient num/den (den > 0), in units
\* of 1/scale: the nearest integer, a tie going away from zero ("if there are
\* two such n, pick the larger n", applied to the magnitude).
RoundDiv(num, den) == Sgn(num) * ((2 * Abs(num) + den) \div (2 * den))

(***************************************************************************)
(* IEEE-754 doubles in [0, 2), exactly: a double is the number of units of *)
(* 2^-56 it holds, written in base 2^14 with the least significant limb    *)
(* first (5 limbs).  Every double >= 2^-4 is a whole number of such units. *)
(***************************************************************************)
LimbBase == 2^14

DblZero == <<0, 0, 0, 0, 0>>

\* carries propagated; the top limb keeps what is left
RECURSIVE DblCarry(_, _, _)
DblCarry(s, i, c) ==
    IF i > Len(s) THEN s
    ELSE LET t == s[i] + c
         IN  IF i = Len(s) THEN [s EXCEPT ![i] = t]
             ELSE DblCarry([s EXCEPT ![i] = t % LimbBase], i + 1, t \div LimbBase)

\* -1, 0, 1 as x is below, equal to, above y
RECURSIVE DblCmpFrom(_, _, _)
DblCmpFrom(x, y, i) ==
    IF i = 0 THEN 0
    ELSE IF x[i] < y[i] THEN -1
    ELSE IF x[i] > y[i] THEN 1
    ELSE DblCmpFrom(x, y, i - 1)

DblCmp(x, y) == DblCmpFrom(x, y, Len(x))

\* units in the last place of a value v (in units of 2^-56): 53 significant bits
DblUlp(v) ==
    IF DblCmp(v, <<0, 0, 0, 0, 1>>) >= 0 THEN 16
    ELSE IF DblCmp(v, <<0, 0, 0, 8192, 0>>) >= 0 THEN 8
    ELSE IF DblCmp(v, <<0, 0, 0, 4096, 0>>) >= 0 THEN 4
    ELSE IF DblCmp(v, <<0, 0, 0, 2048, 0>>) >= 0 THEN 2
    ELSE 1

\* v + rem/den (0 <= rem < den) rounded to the nearest double, ties to even
DblRound(v, rem, den) ==
    LET u    == DblUlp(v)
        low  == v[1] % u
        down == [v EXCEPT ![1] = v[1] - low]
        up   == DblCarry([v EXCEPT ![1] = v[1] - low + u], 1, 0)
        twice == 2 * (low * den + rem)
    IN  IF twice < u * den THEN down
        ELSE IF twice > u * den THEN up
        ELSE IF (v[1] \div u) % 2 = 0 THEN down ELSE up

\* x + y as the double addition computes it
DblAdd(x, y) == DblRound(DblCarry([i \in 1..Len(x) |-> x[i] + y[i]], 1, 0), 0, 1)

\* Math.min
DblMin(x, y) == IF DblCmp(x, y) <= 0 THEN x ELSE y

\* floor(v / d) limb by limb from the top, with the remainder: <<quotient, rem>>
RECURSIVE DblDivSmall(_, _, _, _)
DblDivSmall(v, d, i, r) ==
    IF i = 0 THEN <<v, r>>
    ELSE LET t == r * LimbBase + v[i]
         IN  DblDivSmall([v EXCEPT ![i] = t \div d], d, i - 1, t % d)

\* the double a decimal literal h/100 denotes (0.3 is DblLit(30)); also
\* parseFloat of the text toFixed(2) prints
DblLit(h) ==
    LET qr == DblDivSmall(<<0, 0, 0, 0, h>>, 100, 5, 0)
    IN  DblRound(qr[1], qr[2], 100)

\* toFixed(2), in hundredths: the integer n nearest to 100 * v, the larger on a tie
DblToFixed2(v) ==
    LET w == DblCarry([i \in 1..Len(v) |-> 100 * v[i]], 1, 0)
    IN  w[5] + (IF w[4] >= 8192 THEN 1 ELSE 0)

(***************************************************************************)
(* Per-client statistics (fraudEngine.ts lines 32-39 and 66-74).           *)
(* For a list s of n whole amounts with sum S:                             *)
(*   mean     = S / n                                                      *)
(*   variance = sum of (val - mean)^2, over n  =  SqDev(s) / n^2           *)
(*   std      = sqrt(SqDev(s)) / n, kept as [rad |-> SqDev(s), den |-> n]  *)
(* so a comparison of (amount - mean) / std with a whole threshold is a    *)
(* comparison of integers.                                                 *)
(***************************************************************************)
RECURSIVE SumSeq(_)
SumSeq(s) == IF s = <<>> THEN 0 ELSE Head(s) + SumSeq(Tail(s))

RECURSIVE SumSq(_)
SumSq(s) == IF s = <<>> THEN 0 ELSE Head(s) * Head(s) + SumSq(Tail(s))

RECURSIVE MaxSeq(_)
MaxSeq(s) == IF Len(s) = 1 THEN Head(s) ELSE Max(Head(s), MaxSeq(Tail(s)))

\* n^2 times the population variance: n * sum(val^2) - (sum val)^2
SqDev(s) == Len(s) * SumSq(s) - SumSeq(s) * SumSeq(s)

\* Math.max(Math.sqrt(variance), 1)
StdFloorOne(s) == IF SqDev(s) < Len(s) * Len(s) THEN [rad |-> 1, den |-> 1]
                  ELSE [rad |-> SqDev(s), den |-> Len(s)]

\* Math.sqrt(variance) alone, without the "|| 1"
StdNoFloor(s) == [rad |-> SqDev(s), den |-> Len(s)]

\* Math.sqrt(variance) || 1: the value sqrt(rad) / den
Std(s) == IF SqDev(s) = 0 THEN [rad |-> 1, den |-> 1]
          ELSE [rad |-> SqDev(s), den |-> Len(s)]

\* lines 32-39 (a client's amounts) and 68-71 (the rolling window): the
\* aggregates of a list of amounts; mean is sum / n
Aggregates(s) == [sum |-> SumSeq(s), n |-> Len(s), max |-> MaxSeq(s), std |-> Std(s)]

\* lines 48 and 74: (amount - mean) / std, the value
\* (num / den) / (sqrt(std.rad) / std.den)
Sigmas(amount, agg) ==
    [num |-> agg.n * amount - agg.sum, den |-> agg.n, std |-> agg.std]

\* 0 / 0
IsNaN(z) == z.std.rad = 0 /\ z.num = 0

\* x / 0 with x # 0
IsInfinite(z) == z.std.rad = 0 /\ z.num # 0

IsFiniteNumber(z) == z.std.rad # 0

\* the sign of |z| - k for a finite z:  |z| > k  iff
\* (num * std.den)^2 > k^2 * den^2 * rad, after cancelling gcd(std.den, den)
AbsCmp(z, k) ==
    LET c == Gcd(z.std.den, z.den)
        l == z.num * (z.std.den \div c)
        r == z.den \div c
    IN  Sgn(l * l - k * k * r * r * z.std.rad)

\* No double operation on the way to z was rounded: the mean is a dyadic
\* rational (so is every val - mean and its square) and the standard
\* deviation is one too.  Then z is the correctly rounded quotient of the
\* exact operands, and a z that equals a whole threshold is that threshold.
IsExact(z) ==
    /\ IsDyadic(z.num, z.den)
    /\ IsSquare(z.std.rad)
    /\ IsDyadic(ISqrt(z.std.rad), z.std.den)

\* How the doubles can fall when z is compared with the threshold k: 0 when
\* the comparison of the exact values decides; when |z| = k exactly and the
\* computation was rounded (the mean sum/n, Math.pow, Math.sqrt and the
\* quotient each round), the computed |z| is just below (-1) or just above
\* (1) k.
FpOutcomes(z, k) ==
    IF IsFiniteNumber(z) /\ AbsCmp(z, k) = 0 /\ ~IsExact(z) THEN {-1, 1} ELSE {0}

\* Math.abs(z) >= k
AbsAtLeast(z, k, fp) ==
    /\ IsFiniteNumber(z)
    /\ AbsCmp(z, k) >= 0

\* Math.abs(z) > k, the doubles falling as fp says
AbsGreater(z, k, fp) ==
    /\ IsFiniteNumber(z)
    /\ \/ AbsCmp(z, k) > 0
       \/ AbsCmp(z, k) = 0 /\ fp = 1

\* the values NaN and Infinity of a stored feature
NaN == -(2^30)

Infinity == 2^29

\* parseFloat(z.toFixed(digits)) in units of 10^-digits (digits is 1 or 2):
\* round(10^digits * |z|) = floor((floor(sqrt(4 * 100^digits * z^2)) + 1) / 2)
ToFixedSigmas(z, digits) ==
    IF IsNaN(z) THEN NaN
    ELSE IF IsInfinite(z) THEN Sgn(z.num) * Infinity
    ELSE LET c == Gcd(z.std.den, z.den)
             l == z.num * (z.std.den \div c)
             r == z.den \div c
             y == DivScaled(4 * l * l, r * r * z.std.rad, 2 * digits)
         IN  Sgn(z.num) * ((ISqrt(y) + 1) \div 2)

\* parseFloat(std.toFixed(2)) in hundredths:
\* round(100 * sqrt(rad) / den) = floor((floor(200 * sqrt(rad) / den) + 1) / 2)
ToFixedStd(std) == ((SqrtScaled(4 * std.rad, 2) \div std.den) + 1) \div 2

\* parseFloat(mean.toFixed(2)) in hundredths, mean = sum / n
ToFixedMean(agg) == RoundDiv(100 * agg.sum, agg.n)

(***************************************************************************)
(* Transactions (types.ts) and the model's inputs                          *)
(***************************************************************************)
\* trueLabel?: number -- the field is absent
NoLabel == -1

\* the general batches: every list of at most MaxBatch transactions over
\* these clients, amounts, timestamps (minutes) and labels, ids 1, 2, ...
MaxBatch == 2

Clients == {"C1", "C2"}

Amounts == {48, 1100, 1101}

Times == {0, 90}

Labels == {NoLabel, 0, 1}

Txn(id, c, a, t, l) ==
    [id |-> id, clientId |-> c, amount |-> a, timestamp |-> t, trueLabel |-> l]

\* processBatchWithFeatures only carries the label along: the general batches
\* have it absent or 1, the batches of IsLabelledBatch every label
GeneralLabels == {NoLabel, 1}

\* the general batches take the amounts below and above the threshold of the
\* round-number rule, the long histories every amount of Amounts
GeneralAmounts == {48, 1100}

TxnFields ==
    [clientId : Clients, amount : GeneralAmounts, timestamp : Times, trueLabel : GeneralLabels]

GeneralBatch(f) ==
    [i \in 1..Len(f) |-> Txn(i, f[i].clientId, f[i].amount, f[i].timestamp, f[i].trueLabel)]

IsGeneralBatch(txns) ==
    \E k \in 0..MaxBatch : \E f \in [1..k -> TxnFields] : txns = GeneralBatch(f)

\* the long histories of one client: n transactions gap minutes apart, all of
\* amount a but the one at position pos, of amount b and label l
MaxRun == 11

RunGaps == {30, 60, 61}

RunBatch(n, a, b, pos, gap, l) ==
    [i \in 1..n |-> Txn(i, "C1", IF i = pos THEN b ELSE a, (i - 1) * gap,
                        IF i = pos THEN l ELSE NoLabel)]

IsRunBatch(txns) ==
    \E n \in 1..MaxRun : \E pos \in 1..n : \E a \in Amounts, b \in Amounts :
        \E gap \in RunGaps : txns = RunBatch(n, a, b, pos, gap, NoLabel)

\* Scenario A of the specification: one client, amounts 10, 10, 10, 10, 1000
\* in ascending time order, each gap one of ScenarioAGaps minutes
ScenarioAAmounts == <<10, 10, 10, 10, 1000>>

RECURSIVE TimesFromGaps(_, _)
TimesFromGaps(t0, gaps) ==
    IF gaps = <<>> THEN <<t0>> ELSE <<t0>> \o TimesFromGaps(t0 + Head(gaps), Tail(gaps))

ScenarioABatch(gaps) ==
    [i \in 1..Len(ScenarioAAmounts) |->
        Txn(i, "C1", ScenarioAAmounts[i], TimesFromGaps(0, gaps)[i], NoLabel)]

ScenarioAGaps == {30, 90}

IsScenarioA(txns) ==
    \E gaps \in [1..(Len(ScenarioAAmounts) - 1) -> ScenarioAGaps] : txns = ScenarioABatch(gaps)

\* the specification's example of a small deviation: one client with amounts
\* 1 and 2
SmallPairAmounts == <<1, 2>>

IsSmallPair(txns) ==
    \E gap \in RunGaps :
        txns = [i \in 1..Len(SmallPairAmounts) |->
                   Txn(i, "C1", SmallPairAmounts[i], (i - 1) * gap, NoLabel)]

\* the batches of 3 to MaxMixed transactions, half an hour apart, in which
\* both clients appear
MaxMixed == 3

MixedAmounts == {1100, 1101}

IsMixedBatch(txns) ==
    \E k \in 3..MaxMixed :
        \E f \in [1..k -> [clientId : Clients, amount : MixedAmounts]] :
            /\ \A c \in Clients : \E i \in 1..k : f[i].clientId = c
            /\ txns = [i \in 1..k |-> Txn(i, f[i].clientId, f[i].amount, (i - 1) * 30, NoLabel)]

\* clientGroups is an object literal, so a clientId that names a property
\* every object inherits finds that inherited value at line 20 (truthy, no
\* array is made) and line 21 calls push on it: a TypeError.  These are the
\* inherited names the model tries.
InheritedKeys == {"constructor", "toString"}

\* the batches of at most MaxInherited transactions with such a clientId
\* among them
MaxInherited == 2

IsInheritedKeyBatch(txns) ==
    \E k \in 1..MaxInherited :
        \E f \in [1..k -> [clientId : InheritedKeys \cup {"C1"}, amount : {48, 1100}]] :
            /\ \E i \in 1..k : f[i].clientId \in InheritedKeys
            /\ txns = [i \in 1..k |-> Txn(i, f[i].clientId, f[i].amount, 0, NoLabel)]

\* the batches the analysis of stage 3 is followed on: at most MaxLabelled
\* transactions, each with any of the labels, of one client and 30 or 90
\* minutes apart, or of the two clients by turns, 30 minutes apart and the
\* latest first
MaxLabelled == 3

LabelledAmounts == {48, 1100}

LabelledShapes ==
    { [gap |-> 30, byTurns |-> FALSE], [gap |-> 90, byTurns |-> FALSE],
      [gap |-> -30, byTurns |-> TRUE] }

IsLabelledBatch(txns) ==
    \E k \in 1..MaxLabelled : \E shape \in LabelledShapes :
        \E f \in [1..k -> [amount : LabelledAmounts, trueLabel : Labels]] :
            txns = [i \in 1..k |->
                       Txn(i, IF shape.byTurns /\ i % 2 = 0 THEN "C2" ELSE "C1", f[i].amount,
                           (i - 1) * shape.gap, f[i].trueLabel)]

(***************************************************************************)
(* processBatchWithFeatures, its pure parts                                *)
(***************************************************************************)
\* the keys of clientGroups in insertion order (Object.values visits string
\* keys in the order they were first set): clients by first appearance
RECURSIVE KeysInOrder(_, _)
KeysInOrder(txns, seen) ==
    IF txns = <<>> THEN <<>>
    ELSE IF Head(txns).clientId \in seen THEN KeysInOrder(Tail(txns), seen)
    ELSE <<Head(txns).clientId>> \o KeysInOrder(Tail(txns), seen \cup {Head(txns).clientId})

\* every transaction put into every group
GroupOfAll(txns, c) == txns

\* lines 18-22: each client's transactions, in input order
GroupOf(txns, c) == SelectSeq(txns, LAMBDA t : t.clientId = c)

\* t put before the entries of its own timestamp
RECURSIVE InsertByTimeBeforeEqual(_, _)
InsertByTimeBeforeEqual(sorted, t) ==
    IF sorted = <<>> THEN <<t>>
    ELSE IF t.timestamp <= Head(sorted).timestamp THEN <<t>> \o sorted
    ELSE <<Head(sorted)>> \o InsertByTimeBeforeEqual(Tail(sorted), t)

\* t put into a list sorted by timestamp, after every entry not later than it
RECURSIVE InsertByTime(_, _)
InsertByTime(sorted, t) ==
    IF sorted = <<>> THEN <<t>>
    ELSE IF t.timestamp < Head(sorted).timestamp THEN <<t>> \o sorted
    ELSE <<Head(sorted)>> \o InsertByTime(Tail(sorted), t)

\* line 29: group.sort by timestamp ascending (Array.prototype.sort is stable)
RECURSIVE SortByTime(_)
SortByTime(g) ==
    IF g = <<>> THEN <<>>
    ELSE InsertByTime(SortByTime(SubSeq(g, 1, Len(g) - 1)), g[Len(g)])

AmountsOf(g) == [i \in 1..Len(g) |-> g[i].amount]

\* lines 66-67: push the amount, drop the oldest beyond five
WindowSize == 5

\* push without the shift of line 67
PushWindowKeepAll(w, amount) == Append(w, amount)

PushWindow(w, amount) ==
    LET pushed == Append(w, amount)
    IN  IF Len(pushed) > WindowSize THEN Tail(pushed) ELSE pushed

\* lines 55-63: hours since the client's previous transaction, in minutes
TimeSinceLast(g, index) ==
    IF index > 1 THEN g[index].timestamp - g[index - 1].timestamp ELSE 0

MinutesPerHour == 60

\* timeSinceLast < 1
IsRapidStrict(g, index) == index > 1 /\ TimeSinceLast(g, index) < MinutesPerHour

\* line 62: timeSinceLast <= 1 (hours), only past the first
IsRapid(g, index) == index > 1 /\ TimeSinceLast(g, index) <= MinutesPerHour

\* amount >= 1000 in place of amount > 1000
IsRoundNumberFromThousand(amount) == amount >= 1000 /\ amount % 100 = 0

\* line 106: amount > 1000 && amount % 100 === 0
IsRoundNumber(amount) == amount > 1000 /\ amount % 100 = 0

\* the literals of lines 83, 89, 95, 101, 107 and 111, as doubles
ZScoreWeight == DblLit(30)

MaxAmountWeight == DblLit(25)

RapidWeight == DblLit(20)

RollingDeviationWeight == DblLit(20)

RoundNumberWeight == DblLit(10)

ScoreCap == DblLit(100)

\* the literals of lines 113 and 116-118, as doubles
SuspiciousFrom == DblLit(50)

CriticalAbove == DblLit(80)

HighAbove == DblLit(50)

MediumAbove == DblLit(30)

\* the running double sum of the rules that fired, without the cap of line 111
RuleScoreNoCap(r1, r2, r3, r4, r5) ==
    LET s1 == IF r1 THEN DblAdd(DblZero, ZScoreWeight) ELSE DblZero
        s2 == IF r2 THEN DblAdd(s1, MaxAmountWeight) ELSE s1
        s3 == IF r3 THEN DblAdd(s2, RapidWeight) ELSE s2
        s4 == IF r4 THEN DblAdd(s3, RollingDeviationWeight) ELSE s3
    IN  IF r5 THEN DblAdd(s4, RoundNumberWeight) ELSE s4

\* lines 78-111: the rules that fired, as the running double sum, capped
RuleScore(r1, r2, r3, r4, r5) ==
    LET s1 == IF r1 THEN DblAdd(DblZero, ZScoreWeight) ELSE DblZero
        s2 == IF r2 THEN DblAdd(s1, MaxAmountWeight) ELSE s1
        s3 == IF r3 THEN DblAdd(s2, RapidWeight) ELSE s2
        s4 == IF r4 THEN DblAdd(s3, RollingDeviationWeight) ELSE s3
        s5 == IF r5 THEN DblAdd(s4, RoundNumberWeight) ELSE s4
    IN  DblMin(s5, ScoreCap)

\* ruleScore > 0.5
IsSuspiciousStrict(ruleScore) == DblCmp(ruleScore, SuspiciousFrom) > 0

\* line 113
IsSuspicious(ruleScore) == DblCmp(ruleScore, SuspiciousFrom) >= 0

\* HIGH from 0.5 on
RiskLevelInclusive(ruleScore) ==
    IF DblCmp(ruleScore, CriticalAbove) > 0 THEN "CRITICAL"
    ELSE IF DblCmp(ruleScore, HighAbove) >= 0 THEN "HIGH"
    ELSE IF DblCmp(ruleScore, MediumAbove) > 0 THEN "MEDIUM"
    ELSE "LOW"

\* lines 115-118
RiskLevel(ruleScore) ==
    IF DblCmp(ruleScore, CriticalAbove) > 0 THEN "CRITICAL"
    ELSE IF DblCmp(ruleScore, HighAbove) > 0 THEN "HIGH"
    ELSE IF DblCmp(ruleScore, MediumAbove) > 0 THEN "MEDIUM"
    ELSE "LOW"

\* lines 79-103 and 127: the trigger texts in the order pushed; sigma is the
\* value printed with toFixed(1), in tenths, for the two texts that carry one
Trigger(text, sigma) == [text |-> text, sigma |-> sigma]

Triggers(r1, r2, r3, r4, zScore, amountVsRollingMean) ==
    (IF r1 THEN <<Trigger("Z-Score Anomaly", ToFixedSigmas(zScore, 1))>> ELSE <<>>)
    \o (IF r2 THEN <<Trigger("Max Amount for Client", 0)>> ELSE <<>>)
    \o (IF r3 THEN <<Trigger("Rapid Sequence (Same Step)", 0)>> ELSE <<>>)
    \o (IF r4 THEN <<Trigger("Rolling Deviation", ToFixedSigmas(amountVsRollingMean, 1))>> ELSE <<>>)

\* isMax without the group.length > 1 of line 88
MaxAmountRuleAnySize(group, index, agg) == group[index].amount = agg.max

\* lines 52 and 88: isMax && group.length > 1
MaxAmountRule(group, index, agg) == group[index].amount = agg.max /\ Len(group) > 1

\* lines 44-139: the enriched record of group[index]; agg holds the client's
\* aggregates, window is rollingWindow5 after this transaction's amount was
\* pushed; fpZ and fpR say how the doubles fall at a threshold (FpOutcomes)
Enrich(group, index, agg, window, fpZ, fpR) ==
    LET txn     == group[index]
        zScore  == Sigmas(txn.amount, agg)
        isOutlier == AbsGreater(zScore, 3, fpZ)
        isMax   == txn.amount = agg.max
        isRapid == IsRapid(group, index)
        rolling == Aggregates(window)
        amountVsRollingMean == Sigmas(txn.amount, rolling)
        r1 == AbsGreater(zScore, 3, fpZ)
        r2 == MaxAmountRule(group, index, agg)
        r3 == isRapid
        r4 == AbsGreater(amountVsRollingMean, 2, fpR)
        r5 == IsRoundNumber(txn.amount)
        ruleScore == RuleScore(r1, r2, r3, r4, r5)
    IN  [ id |-> txn.id, clientId |-> txn.clientId, amount |-> txn.amount,
          timestamp |-> txn.timestamp, trueLabel |-> txn.trueLabel,
          transactionId |-> txn.id,
          fraudScore |-> DblToFixed2(ruleScore),
          isSuspicious |-> IsSuspicious(ruleScore),
          riskLevel |-> RiskLevel(ruleScore),
          ruleTriggered |-> Triggers(r1, r2, r3, r4, zScore, amountVsRollingMean),
          client_amount_mean |-> ToFixedMean(agg),
          client_amount_std |-> ToFixedStd(agg.std),
          client_transaction_count |-> Len(group),
          amount_zscore |-> ToFixedSigmas(zScore, 2),
          is_amount_outlier |-> isOutlier,
          time_since_last_trans |-> RoundDiv(100 * TimeSinceLast(group, index), MinutesPerHour),
          amount_rolling_mean_5 |-> ToFixedMean(rolling),
          amount_rolling_std_5 |-> ToFixedStd(rolling.std),
          is_rapid_transaction |-> isRapid,
          category_freq |-> 0 ]

(***************************************************************************)
(* calcMetrics (lines 214-246), its pure parts.  Scores are in units of    *)
(* 10^-4 and are only compared; the metrics are the values toFixed(4)      *)
(* prints, in units of 10^-4.  A quotient is kept as [num, den].           *)
(***************************************************************************)
\* lines 215-222: how many indices have this truth and this prediction
RECURSIVE CountPairs(_, _, _, _)
CountPairs(truthSeq, predSeq, actual, pred) ==
    IF truthSeq = <<>> THEN 0
    ELSE (IF Head(truthSeq) = actual /\ Head(predSeq) = pred THEN 1 ELSE 0)
         + CountPairs(Tail(truthSeq), Tail(predSeq), actual, pred)

Confusion(predSeq, truthSeq) ==
    [tp |-> CountPairs(truthSeq, predSeq, 1, 1), fp |-> CountPairs(truthSeq, predSeq, 0, 1),
     fn |-> CountPairs(truthSeq, predSeq, 1, 0), tn |-> CountPairs(truthSeq, predSeq, 0, 0)]

Ratio(num, den) == [num |-> num, den |-> den]

\* tp over the actual positives
PrecisionOfActual(c) == IF c.tp + c.fn = 0 THEN Ratio(0, 1) ELSE Ratio(c.tp, c.tp + c.fn)

\* line 224
Precision(c) == IF c.tp + c.fp = 0 THEN Ratio(0, 1) ELSE Ratio(c.tp, c.tp + c.fp)

\* line 225
Recall(c) == IF c.tp + c.fn = 0 THEN Ratio(0, 1) ELSE Ratio(c.tp, c.tp + c.fn)

\* line 226: 2 * (p * r) / (p + r), the common denominator p.den * r.den
\* cancelled; 0 when p + r is 0
F1Score(p, r) ==
    IF p.num * r.den + r.num * p.den = 0 THEN Ratio(0, 1)
    ELSE Ratio(2 * p.num * r.num, p.num * r.den + r.num * p.den)

\* toFixed(4) of a quotient, in units of 10^-4
ToFixed4(q) == RoundDiv(10000 * q.num, q.den)

\* p put into a list sorted by score ascending
RECURSIVE InsertByScoreAscending(_, _)
InsertByScoreAscending(sorted, p) ==
    IF sorted = <<>> THEN <<p>>
    ELSE IF p.s < Head(sorted).s THEN <<p>> \o sorted
    ELSE <<Head(sorted)>> \o InsertByScoreAscending(Tail(sorted), p)

\* p put into a list sorted by score descending, after every entry whose
\* score is not lower
RECURSIVE InsertByScore(_, _)
InsertByScore(sorted, p) ==
    IF sorted = <<>> THEN <<p>>
    ELSE IF p.s > Head(sorted).s THEN <<p>> \o sorted
    ELSE <<Head(sorted)>> \o InsertByScore(Tail(sorted), p)

RECURSIVE SortByScore(_)
SortByScore(ps) ==
    IF ps = <<>> THEN <<>>
    ELSE InsertByScore(SortByScore(SubSeq(ps, 1, Len(ps) - 1)), ps[Len(ps)])

\* line 229: the (score, truth) pairs sorted by score descending (stable)
SortedPairs(scoreSeq, truthSeq) ==
    SortByScore([i \in 1..Len(scoreSeq) |-> [s |-> scoreSeq[i], t |-> truthSeq[i]]])

\* line 236
TotalPos(truthSeq) == Len(SelectSeq(truthSeq, LAMBDA x : x = 1))

\* 0 when a class is missing
RocAucZero(aucSum, truthSeq) ==
    LET totalPos == TotalPos(truthSeq)
        totalNeg == Len(truthSeq) - totalPos
    IN  IF totalPos * totalNeg = 0 THEN Ratio(0, 1) ELSE Ratio(aucSum, totalPos * totalNeg)

\* line 238: 0.5 when a class is missing
RocAuc(aucSum, truthSeq) ==
    LET totalPos == TotalPos(truthSeq)
        totalNeg == Len(truthSeq) - totalPos
    IN  IF totalPos * totalNeg = 0 THEN Ratio(1, 2) ELSE Ratio(aucSum, totalPos * totalNeg)

\* lines 230-235: the walk over the sorted pairs, from posCount and auc
RECURSIVE AucWalk(_, _, _)
AucWalk(ps, positives, sum) ==
    IF ps = <<>> THEN sum
    ELSE IF Head(ps).t = 1 THEN AucWalk(Tail(ps), positives + 1, sum)
    ELSE AucWalk(Tail(ps), positives, sum + positives)

\* lines 214-246: calcMetrics as a function
CalcMetrics(predSeq, scoreSeq, truthSeq) ==
    LET c == Confusion(predSeq, truthSeq)
    IN  [ precision |-> ToFixed4(Precision(c)),
          recall    |-> ToFixed4(Recall(c)),
          f1Score   |-> ToFixed4(F1Score(Precision(c), Recall(c))),
          rocAuc    |-> ToFixed4(RocAuc(AucWalk(SortedPairs(scoreSeq, truthSeq), 0, 0), truthSeq)) ]

\* the inputs of calcMetrics the model tries: every three lists of at most
\* MaxEval predictions, scores and labels
MaxEval == 4

EvalScores == {3000, 8000}

EvalFields == [pred : {0, 1}, score : EvalScores, truth : {0, 1}]

\* lists built from confusion counts: tp entries predicted and truly 1, then
\* fp, fn and tn entries, a predicted 1 scored 0.8 and a predicted 0 scored 0.2
EvalCounts == {0, 1, 2, 8}

Repeat(n, x) == [i \in 1..n |-> x]

CountedInput(tp, fp, fn, tn) ==
    [ preds  |-> Repeat(tp + fp, 1) \o Repeat(fn + tn, 0),
      scores |-> Repeat(tp + fp, 8000) \o Repeat(fn + tn, 2000),
      truth  |-> Repeat(tp, 1) \o Repeat(fp, 0) \o Repeat(fn, 1) \o Repeat(tn, 0) ]

\* Scenario D of the specification: scores 0.9, 0.8, 0.3, 0.2 with truth
\* 1, 0, 1, 0, under any predictions
ScenarioDScores == <<9000, 8000, 3000, 2000>>

ScenarioDTruth == <<1, 0, 1, 0>>

(***************************************************************************)
(* runStage3Analysis (lines 152-281), its pure parts.  A real number is    *)
(* kept in units of 10^-8 (One is 1.0), every operation rounding down; a   *)
(* score is the value toFixed(4) prints, in units of 10^-4.  Where the     *)
(* error of the computation leaves two printed values possible, the model  *)
(* keeps both.                                                             *)
(***************************************************************************)
One == 100000000

\* [q, r] with a * b = q * c + r and 0 <= r < c, by long multiplication in
\* base 4 (a, b >= 0, c > 0, 4 * c + 3 * a below 2^31)
RECURSIVE MulDivRec(_, _, _)
MulDivRec(a, b, c) ==
    IF b = 0 THEN [q |-> 0, r |-> 0]
    ELSE LET p == MulDivRec(a, b \div 4, c)
             t == 4 * p.r + a * (b % 4)
         IN  [q |-> 4 * p.q + t \div c, r |-> t % c]

\* floor(a * b / One) for 0 <= a, b <= One, by halves of four digits
MulOne(a, b) ==
    LET half == 10000
        cross == (a \div half) * (b % half) + (a % half) * (b \div half)
    IN  (a \div half) * (b \div half)
            + (cross + ((a % half) * (b % half)) \div half) \div half

\* floor(a * b / c)
MulDiv(a, b, c) ==
    LET f[x \in {a}, y \in {b}, z \in {c}] ==
            IF z = One /\ x <= One /\ y <= One THEN MulOne(x, y) ELSE MulDivRec(x, y, z).q
    IN  f[a, b, c]

\* 1 / e
InvE == 36787944

\* the terms f^k / k! of the exponential series from the k-th on, signs
\* alternating, for 0 <= f < 1
RECURSIVE ExpSeries(_, _, _)
ExpSeries(f, term, k) ==
    IF term = 0 THEN 0
    ELSE term - ExpSeries(f, MulOne(term, f) \div (k + 1), k + 1)

RECURSIVE TimesInvE(_, _)
TimesInvE(v, n) == IF n = 0 THEN v ELSE TimesInvE(MulOne(v, InvE), n - 1)

\* Math.exp(-x) for x >= 0
ExpNeg(x) == TimesInvE(ExpSeries(x % One, One, 0), x \div One)

\* line 6: sigmoid(z) = 1 / (1 + Math.exp(-z)), for |z| below 12
Sigmoid(z) ==
    LET e == ExpNeg(Abs(z))
    IN  IF z >= 0 THEN MulDiv(One, One, One + e) ELSE MulDiv(e, One, One + e)

\* how far the computed value of a real may be from the double the code
\* computes
Slack == 4

\* parseFloat(x.toFixed(4)) for every real within Slack of x
ToFixed4Near(x) ==
    { (v + 5000) \div 10000 : v \in {Max(x - Slack, 0), x + Slack} }

\* a stored feature read as "x || 0": NaN counts as 0
OrZero(x) == IF x = NaN THEN 0 ELSE x

\* the label 1 from a rule score above 0.3
HeuristicLabelAboveThird(t) == IF t.fraudScore > 30 THEN 1 ELSE 0

\* line 159: the label taken from the rule score
HeuristicLabel(t) == IF t.fraudScore > 70 THEN 1 ELSE 0

\* the ground truth taken from trueLabel alone, an absent one counting as 0
GroundTruthFromLabelOnly(t) ==
    [label |-> IF t.trueLabel # NoLabel THEN t.trueLabel ELSE 0, source |-> "trueLabel"]

\* lines 157-160: a transaction's ground truth and where it was taken from
GroundTruthOf(t) ==
    IF t.trueLabel # NoLabel THEN [label |-> t.trueLabel, source |-> "trueLabel"]
    ELSE [label |-> HeuristicLabel(t), source |-> "fraudScore"]

\* line 164: the rule score, in units of 10^-4
RuleScoreOf(t) == 100 * t.fraudScore

\* line 165
RulePred(s) == IF s >= 5000 THEN 1 ELSE 0

\* no remainder is lost in floor(a * b / c)
MulDivExact(a, b, c) ==
    LET f[x \in {a}, y \in {b}, z \in {c}] == MulDivRec(x, y, z).r = 0
    IN  f[a, b, c]

\* lines 172-177: f1*f1 + f2*f2 + f3*f3, rounded down, and whether nothing
\* was rounded
IsoSquares(t) ==
    LET f1 == Min(Abs(OrZero(t.amount_zscore)), 1000) * 100000
        mean == IF t.client_amount_mean = 0 THEN 100 ELSE t.client_amount_mean
        std5 == t.amount_rolling_std_5
        f2 == IF std5 >= mean THEN One ELSE MulDiv(std5, One, mean)
        f3 == IF t.is_rapid_transaction THEN One ELSE 0
    IN  [ sum   |-> MulDiv(f1, f1, One) + MulDiv(f2, f2, One) + f3,
          exact |-> /\ std5 >= mean \/ MulDivExact(std5, One, mean)
                    /\ MulDivExact(f1, f1, One)
                    /\ MulDivExact(f2, f2, One) ]

\* Math.sqrt(s) / 1.73 in units of 10^-7, rounded down
DistanceOf(s) == MulDiv(SqrtScaled(s, 3), 100, 173)

\* parseFloat(x.toFixed(4)) for x in units of 10^-7
ToFixed4Of7(x) == (x + 500) \div 1000

\* lines 170-179: the values isoScore can take, between the distance of the
\* sum rounded down and that of the least sum above the true one
IsoScores(t) ==
    LET sq == IsoSquares(t)
        lo == ToFixed4Of7(DistanceOf(sq.sum))
        hi == ToFixed4Of7(DistanceOf(sq.sum + (IF sq.exact THEN 0 ELSE 6)) + 2)
    IN  lo..hi

\* line 180
IsoPred(s) == IF s > 4000 THEN 1 ELSE 0

\* the linear part with a weight on the label
LinearPartWithLabel(t) ==
    245 * Abs(OrZero(t.amount_zscore)) + (IF t.is_rapid_transaction THEN 18900 ELSE 0)
    + t.amount - 45000 + (IF t.trueLabel = 1 THEN 30000 ELSE 0)

\* lines 186-199 without the rolling deviation: w_zscore * x_zscore +
\* w_rapid * x_rapid + w_amount * x_amount + bias, in units of 10^-4
LinearPart(t) ==
    245 * Abs(OrZero(t.amount_zscore)) + (IF t.is_rapid_transaction THEN 18900 ELSE 0)
    + t.amount - 45000

\* line 196: x_rolling_dev = |amount - rolling mean| / (rolling std || 1), as
\* [num, den]
RollingDev(t) ==
    Ratio(Abs(100 * t.amount - t.amount_rolling_mean_5),
          IF t.amount_rolling_std_5 = 0 THEN 100 ELSE t.amount_rolling_std_5)

\* the least z at which sigmoid(z) prints as 1.0000 whatever follows
SaturatedFrom == 12

\* lines 184-204: the values logRegScore can take
LogRegScores(t) ==
    LET dev == RollingDev(t)
        lin == LinearPart(t)
    IN  IF 12 * dev.num >= 10 * (SaturatedFrom + 5) * dev.den THEN {10000}
        ELSE LET z4 == lin + MulDiv(12 * dev.num, 1000, dev.den)
             IN  IF z4 >= SaturatedFrom * 10000 THEN {10000}
                 ELSE ToFixed4Near(Sigmoid(10000 * lin + MulDiv(12 * dev.num, 10000000, dev.den)))

\* line 205
LogRegPred(s) == IF s > 5000 THEN 1 ELSE 0

\* what the isolation score of a record is computed from (lines 171-173)
IsoInputs(t) ==
    <<t.amount_zscore, t.amount_rolling_std_5, t.client_amount_mean, t.is_rapid_transaction>>

\* what the regression score of a record is computed from (lines 185-188)
LogRegInputs(t) ==
    <<t.amount_zscore, t.is_rapid_transaction, t.amount, t.amount_rolling_mean_5,
      t.amount_rolling_std_5>>

\* the lists of scores a model can give the records: the i-th score is one
\* the i-th record can take, and records with equal inputs take equal scores
\* (each score is a function of its inputs)
RECURSIVE ScoreLists(_, _, _)
ScoreLists(ts, model, chosen) ==
    IF Len(chosen) = Len(ts) THEN {chosen}
    ELSE LET i == Len(chosen) + 1
             InputsOf(t) == IF model = "iso" THEN IsoInputs(t) ELSE LogRegInputs(t)
             same == {j \in 1..Len(chosen) : InputsOf(ts[j]) = InputsOf(ts[i])}
         IN  IF same # {}
             THEN ScoreLists(ts, model, Append(chosen, chosen[CHOOSE j \in same : TRUE]))
             ELSE UNION { ScoreLists(ts, model, Append(chosen, x)) :
                            x \in IF model = "iso" THEN IsoScores(ts[i])
                                  ELSE LogRegScores(ts[i]) }

\* the two scores set on a record and its fraudScore set to the regression's
WithScoresAndFraudScore(t, iso, logReg) ==
    ("isoForestScore" :> iso @@ "logRegScore" :> logReg @@ "fraudScore" :> logReg \div 100) @@ t

\* lines 208-211: the two scores set on a record, the rest as it was
WithScores(t, iso, logReg) == ("isoForestScore" :> iso @@ "logRegScore" :> logReg) @@ t

\* the last strategy with the greatest rocAuc
BestModelLatest(ruleMetrics, isoMetrics, logMetrics) ==
    LET afterIso == IF isoMetrics.rocAuc >= ruleMetrics.rocAuc
                    THEN [name |-> "IsolationForest", maxAuc |-> isoMetrics.rocAuc]
                    ELSE [name |-> "Rule-Based", maxAuc |-> ruleMetrics.rocAuc]
    IN  IF logMetrics.rocAuc >= afterIso.maxAuc THEN "LogisticRegression" ELSE afterIso.name

\* lines 252-263: the first strategy with the greatest rocAuc
BestModel(ruleMetrics, isoMetrics, logMetrics) ==
    LET afterIso == IF isoMetrics.rocAuc > ruleMetrics.rocAuc
                    THEN [name |-> "IsolationForest", maxAuc |-> isoMetrics.rocAuc]
                    ELSE [name |-> "Rule-Based", maxAuc |-> ruleMetrics.rocAuc]
    IN  IF logMetrics.rocAuc > afterIso.maxAuc THEN "LogisticRegression" ELSE afterIso.name

(***************************************************************************)
(* parseCSV (src/App.tsx, lines 145-185), its pure parts.  The text is a   *)
(* list of lines, a line the list of its cells as split(',') and trim()    *)
(* leave them, a cell a list of characters.  The cells of the model are    *)
(* written with digits, a sign and letters other than e, x and I: on these *)
(* parseInt and parseFloat read the same leading whole number.  A number   *)
(* read is kept as its sign and its decimal digits, so that a step of ten  *)
(* digits is exact.                                                        *)
(***************************************************************************)
\* row[i] where the row has no such cell: undefined
NoCell == <<"undefined">>

DigitChars == <<"0", "1", "2", "3", "4", "5", "6", "7", "8", "9">>

IsDigit(c) == \E k \in 1..Len(DigitChars) : DigitChars[k] = c

\* the digits a text begins with
RECURSIVE LeadingDigits(_)
LeadingDigits(text) ==
    IF text = <<>> \/ ~IsDigit(Head(text)) THEN <<>>
    ELSE <<Head(text)>> \o LeadingDigits(Tail(text))

RECURSIVE StripZeros(_)
StripZeros(digits) ==
    IF digits # <<>> /\ Head(digits) = "0" THEN StripZeros(Tail(digits)) ELSE digits

NotANumber == [nan |-> TRUE, neg |-> FALSE, digits |-> <<>>]

Zero == [nan |-> FALSE, neg |-> FALSE, digits |-> <<>>]

\* parseInt(cell) and, on the cells of the model, parseFloat(cell): an
\* optional sign, then the leading digits; NaN when there is none
ParseNumber(cell) ==
    IF cell = NoCell \/ cell = <<>> THEN NotANumber
    ELSE LET signed == Head(cell) \in {"-", "+"}
             digits == LeadingDigits(IF signed THEN Tail(cell) ELSE cell)
         IN  IF digits = <<>> THEN NotANumber
             ELSE [nan |-> FALSE, neg |-> Head(cell) = "-" /\ StripZeros(digits) # <<>>,
                   digits |-> StripZeros(digits)]

\* x || 0 on a number: NaN and 0 give 0
NumberOrZero(x) == IF x.nan THEN Zero ELSE x

\* a whole number of decimal digits (no leading zero) is at most another
RECURSIVE DigitsAtMost(_, _)
DigitsAtMost(a, b) ==
    IF Len(a) # Len(b) THEN Len(a) < Len(b)
    ELSE IF a = <<>> THEN TRUE
    ELSE IF Head(a) # Head(b)
         THEN (CHOOSE k \in 1..10 : DigitChars[k] = Head(a))
                  < (CHOOSE k \in 1..10 : DigitChars[k] = Head(b))
         ELSE DigitsAtMost(Tail(a), Tail(b))

\* the greatest step with baseDate + step hours within the 8.64e15 ms a Date
\* holds (baseDate is 1672531200000 ms), and the greatest one below baseDate
LastStepAfter == <<"2", "3", "9", "9", "5", "3", "5", "4", "0", "8">>

LastStepBefore == <<"2", "4", "0", "0", "4", "6", "4", "5", "9", "2">>

\* line 169: new Date(...) is a valid date, so toISOString() returns
IsValidDate(step) ==
    IF step.neg THEN DigitsAtMost(step.digits, LastStepBefore)
    ELSE DigitsAtMost(step.digits, LastStepAfter)

\* headers.indexOf(name), 0 where the code has -1
RECURSIVE IndexOf(_, _)
IndexOf(headers, name) ==
    IF headers = <<>> THEN 0
    ELSE IF Head(headers) = name THEN 1
    ELSE IF IndexOf(Tail(headers), name) = 0 THEN 0
    ELSE 1 + IndexOf(Tail(headers), name)

\* lines 151-158
ResolveColumns(headers) ==
    [ step     |-> IndexOf(headers, <<"s", "t", "e", "p">>),
      type     |-> IndexOf(headers, <<"t", "y", "p", "e">>),
      amount   |-> IndexOf(headers, <<"a", "m", "o", "u", "n", "t">>),
      nameOrig |-> IndexOf(headers, <<"n", "a", "m", "e", "O", "r", "i", "g">>),
      isFraud  |-> IndexOf(headers, <<"i", "s", "F", "r", "a", "u", "d">>) ]

\* row[i]
CellAt(row, i) == IF i \in 1..Len(row) THEN row[i] ELSE NoCell

\* line.trim() !== ''
IsBlankLine(line) == line = <<<<>>>>

\* line 146: the lines that are not blank, in order
RECURSIVE NonBlank(_)
NonBlank(lines) ==
    IF lines = <<>> THEN <<>>
    ELSE IF IsBlankLine(Head(lines)) THEN NonBlank(Tail(lines))
    ELSE <<Head(lines)>> \o NonBlank(Tail(lines))

\* line 164: at most this many data rows are parsed
MaxDataRows == 10000

\* lines.slice(1, 10001)
DataLinesOf(lines) == SubSeq(lines, 2, Min(Len(lines), MaxDataRows + 1))

\* lines 172-182: the transaction made of row i (from 0); the id and the
\* default clientId are kept as the parts of their templates, the timestamp
\* as the step it is made from
ParsedRow(row, i, columns) ==
    [ id        |-> <<"TX", i, CellAt(row, columns.step)>>,
      clientId  |-> IF CellAt(row, columns.nameOrig) \in {NoCell, <<>>}
                    THEN <<"Unknown", i>> ELSE CellAt(row, columns.nameOrig),
      amount    |-> NumberOrZero(ParseNumber(CellAt(row, columns.amount))),
      timestamp |-> NumberOrZero(ParseNumber(CellAt(row, columns.step))),
      category  |-> IF CellAt(row, columns.type) \in {NoCell, <<>>}
                    THEN <<"P", "A", "Y", "M", "E", "N", "T">> ELSE CellAt(row, columns.type),
      trueLabel |-> NumberOrZero(ParseNumber(CellAt(row, columns.isFraud))) ]

\* the texts the model tries: one of these header lines, then at most
\* MaxCsvRows data rows, each one of these rows cut to the header's length,
\* with or without a blank line after each line
MaxCsvRows == 2

CsvHeaders ==
    { << <<"s", "t", "e", "p">>, <<"t", "y", "p", "e">>, <<"a", "m", "o", "u", "n", "t">>,
         <<"n", "a", "m", "e", "O", "r", "i", "g">>, <<"i", "s", "F", "r", "a", "u", "d">> >>,
      << <<"a", "m", "o", "u", "n", "t">>, <<"s", "t", "e", "p">> >>,
      << <<"i", "d">> >> }

\* a data row in the order step, type, amount, nameOrig, isFraud
CsvRow(step, type, amount, nameOrig, isFraud) ==
    [step |-> step, type |-> type, amount |-> amount, nameOrig |-> nameOrig, isFraud |-> isFraud]

CsvRows ==
    { CsvRow(<<"1">>, <<"C", "A", "S", "H">>, <<"2", "5", "0">>, <<"C", "1">>, <<"1">>),
      CsvRow(<<"1">>, <<"C", "A", "S", "H">>, <<"4", "8">>, <<"C", "2">>, <<"0">>),
      CsvRow(<<>>, <<>>, <<>>, <<>>, <<>>),
      CsvRow(<<"a", "b">>, <<"C", "A", "S", "H">>, <<"a", "b">>, <<"C", "1">>, <<"a", "b">>),
      CsvRow(<<"7">>, <<"C", "A", "S", "H">>, <<"1", "2", "a", "b">>, <<"C", "1">>, <<"0">>),
      CsvRow(<<"-", "7">>, <<>>, <<"0", "0", "7">>, <<>>, <<"1">>),
      CsvRow(LastStepAfter, <<"C", "A", "S", "H">>, <<"4", "8">>, <<"C", "1">>, <<"0">>),
      CsvRow(<<"2", "3", "9", "9", "5", "3", "5", "4", "0", "9">>, <<"C", "A", "S", "H">>,
             <<"4", "8">>, <<"C", "1">>, <<"0">>) }

\* the cells of a data row under a header line: each column takes the cell of
\* its name, a column of another name the step's
LineOf(row, headers) ==
    [j \in 1..Len(headers) |->
        LET columns == ResolveColumns(headers)
        IN  IF j = columns.type THEN row.type
            ELSE IF j = columns.amount THEN row.amount
            ELSE IF j = columns.nameOrig THEN row.nameOrig
            ELSE IF j = columns.isFraud THEN row.isFraud
            ELSE row.step]

RECURSIVE WithBlankLines(_)
WithBlankLines(lines) ==
    IF lines = <<>> THEN <<>>
    ELSE <<Head(lines), <<<<>>>> >> \o WithBlankLines(Tail(lines))

IsCsvText(text) ==
    \E headers \in CsvHeaders, k \in 0..MaxCsvRows, blanks \in BOOLEAN :
        \E rows \in [1..k -> CsvRows] :
            LET lines == <<headers>> \o [i \in 1..k |-> LineOf(rows[i], headers)]
            IN  text = IF blanks THEN WithBlankLines(lines) ELSE lines

(***************************************************************************)
(* processBatchWithFeatures as a state machine                             *)
(***************************************************************************)
VARIABLES
    transactions,     \* the argument
    pc,               \* "start", "groups" (between groups), "txns" (inside group.forEach),
                      \* "done" (returned), "threw"
    clientGroups,     \* clientId -> that client's transactions
    groupKeys,        \* the keys of clientGroups in insertion order
    gi,               \* how many groups Object.values(...).forEach has entered
    index,            \* how many transactions of the current group are done
    aggregates,       \* sum, n, max and std of the current group (lines 32-39)
    rollingWindow5,
    enrichedResults

batchVars == <<transactions, pc, clientGroups, groupKeys, gi, index, aggregates, rollingWindow5,
               enrichedResults>>

\* calcMetrics
VARIABLES
    preds, scores, truth,   \* the arguments
    mpc,                    \* "count", "sort", "walk", "done"
    confusion,              \* tp, fp, fn, tn
    pairs,                  \* the sorted (score, truth) pairs
    walked,                 \* how many pairs pairs.forEach has visited
    auc, posCount,
    metrics                 \* the record returned

metricsVars == <<preds, scores, truth, mpc, confusion, pairs, walked, auc, posCount, metrics>>

\* runStage3Analysis, called with the array processBatchWithFeatures returned
\* (App.tsx, lines 208-209)
VARIABLES
    s3pc,          \* "idle", "done"
    groundTruth,   \* per transaction: the label and where it was taken from
    modelScores,   \* ruleScores, isoScores, logRegScores
    stage3Results  \* the record returned

stage3Vars == <<s3pc, groundTruth, modelScores, stage3Results>>

\* parseCSV
VARIABLES
    csvText,     \* the argument
    csvPc,       \* "idle", "start", "rows" (inside dataLines.map), "done", "threw"
    columns,     \* idx
    dataLines,
    parsed       \* the transactions made so far; at "done", the array returned

csvVars == <<csvText, csvPc, columns, dataLines, parsed>>

\* analyzeTransaction
VARIABLES
    history, newTxn,   \* the arguments (txn and history)
    streamPc,          \* "idle", "start", "batch" (inside processBatchWithFeatures),
                       \* "returned", "threw"
    analysed           \* the record returned

streamVars == <<history, newTxn, streamPc, analysed>>

\* the component's state that handleFileUpload and the live interval touch
VARIABLES
    running,            \* the synchronous job the one thread is in: "unmounted" (none
                        \* yet), "mount" (lines 82-85), "upload" (lines 208-226),
                        \* "tick" (lines 90-102), "none"
    upPc,               \* where the upload is: "idle", "reading" (FileReader at work),
                        \* "rejected" (nothing parsed), "parseThrew", "sleeping"
                        \* (line 206), "processing" (lines 208-209), "reporting"
                        \* (line 226), "done", "threw"
    isProcessing,
    isLive,
    shownTransactions,  \* the state named transactions, newest first
    rawTransactions,    \* the constants of these names in reader.onload
    enrichedBatch,
    analysisResult,
    showAnalysisModal,
    modalTransactions,  \* the transactions handed to AnalysisModal (line 570) by the
                        \* render that follows setShowAnalysisModal(true)
    ticks               \* how many times the interval has fired

appVars == <<running, upPc, isProcessing, isLive, shownTransactions, rawTransactions,
             enrichedBatch, analysisResult, showAnalysisModal, modalTransactions, ticks>>

flowVars == <<streamVars, appVars>>

vars == <<batchVars, metricsVars, stage3Vars, csvVars, flowVars>>

\* the group being processed
CurrentGroup == clientGroups[groupKeys[gi]]

\* no group entered yet
NoAggregates == [sum |-> 0, n |-> 0, max |-> 0, std |-> [rad |-> 1, den |-> 1]]

NoConfusion == [tp |-> 0, fp |-> 0, fn |-> 0, tn |-> 0]

NoMetrics == [precision |-> 0, recall |-> 0, f1Score |-> 0, rocAuc |-> 0]

\* processBatchWithFeatures is not running
BatchIdle ==
    /\ transactions = <<>>
    /\ pc = "idle"
    /\ clientGroups = <<>>
    /\ groupKeys = <<>>
    /\ gi = 0
    /\ index = 0
    /\ aggregates = NoAggregates
    /\ rollingWindow5 = <<>>
    /\ enrichedResults = <<>>

\* calcMetrics is not running
MetricsIdle ==
    /\ preds = <<>>
    /\ scores = <<>>
    /\ truth = <<>>
    /\ mpc = "idle"
    /\ confusion = NoConfusion
    /\ pairs = <<>>
    /\ walked = 0
    /\ auc = 0
    /\ posCount = 0
    /\ metrics = NoMetrics

NoScores == [rule |-> <<>>, iso |-> <<>>, logReg |-> <<>>]

NoResults ==
    [ruleBased |-> NoMetrics, isolationForest |-> NoMetrics, logisticRegression |-> NoMetrics,
     bestModel |-> ""]

\* runStage3Analysis is not running
Stage3Idle ==
    /\ s3pc = "idle"
    /\ groundTruth = <<>>
    /\ modelScores = NoScores
    /\ stage3Results = NoResults

NoColumns == [step |-> 0, type |-> 0, amount |-> 0, nameOrig |-> 0, isFraud |-> 0]

\* parseCSV is not running
CsvIdle ==
    /\ csvText = <<>>
    /\ csvPc = "idle"
    /\ columns = NoColumns
    /\ dataLines = <<>>
    /\ parsed = <<>>

NoRecord == [id |-> 0]

\* analyzeTransaction is not running
StreamIdle ==
    /\ history = <<>>
    /\ newTxn = NoRecord
    /\ streamPc = "idle"
    /\ analysed = NoRecord

NoAnalysis == [totalProcessed |-> 0, reportContent |-> "", stage3 |-> NoResults]

\* the component as useState leaves it (lines 43-56), no effect run yet
AppIdle ==
    /\ running = "unmounted"
    /\ upPc = "idle"
    /\ isProcessing = FALSE
    /\ isLive = FALSE
    /\ shownTransactions = <<>>
    /\ rawTransactions = <<>>
    /\ enrichedBatch = <<>>
    /\ analysisResult = NoAnalysis
    /\ showAnalysisModal = FALSE
    /\ modalTransactions = <<>>
    /\ ticks = 0

Init ==
    /\ \/ IsGeneralBatch(transactions)
       \/ IsRunBatch(transactions)
       \/ IsScenarioA(transactions)
       \/ IsSmallPair(transactions)
       \/ IsInheritedKeyBatch(transactions)
       \/ IsMixedBatch(transactions)
    /\ pc = "start"
    /\ clientGroups = <<>>
    /\ groupKeys = <<>>
    /\ gi = 0
    /\ index = 0
    /\ aggregates = NoAggregates
    /\ rollingWindow5 = <<>>
    /\ enrichedResults = <<>>
    /\ MetricsIdle
    /\ Stage3Idle
    /\ CsvIdle
    /\ StreamIdle
    /\ AppIdle

\* lines 18-24: the grouping; it throws at the first clientId that is an
\* inherited property name, and the function returns nothing
GroupByClient ==
    /\ pc = "start"
    /\ IF \E i \in 1..Len(transactions) : transactions[i].clientId \in InheritedKeys
       THEN /\ pc' = "threw"
            /\ UNCHANGED <<groupKeys, clientGroups>>
       ELSE /\ groupKeys' = KeysInOrder(transactions, {})
            /\ clientGroups' = [c \in {transactions[i].clientId : i \in 1..Len(transactions)} |->
                                   GroupOf(transactions, c)]
            /\ pc' = "groups"
    /\ UNCHANGED <<transactions, gi, index, aggregates, rollingWindow5, enrichedResults>>
    /\ UNCHANGED <<metricsVars, stage3Vars, csvVars>>
    /\ UNCHANGED flowVars

\* lines 27-42: enter the next group, sort it in place, take its aggregates,
\* empty the window
BeginGroup ==
    /\ pc = "groups"
    /\ gi < Len(groupKeys)
    /\ gi' = gi + 1
    /\ LET sorted == SortByTime(clientGroups[groupKeys[gi + 1]])
       IN  /\ clientGroups' = [clientGroups EXCEPT ![groupKeys[gi + 1]] = sorted]
           /\ aggregates' = Aggregates(AmountsOf(sorted))
    /\ index' = 0
    /\ rollingWindow5' = <<>>
    /\ pc' = "txns"
    /\ UNCHANGED <<transactions, groupKeys, enrichedResults>>
    /\ UNCHANGED <<metricsVars, stage3Vars, csvVars>>
    /\ UNCHANGED flowVars

\* lines 44-142: one round of group.forEach
ScoreTxn ==
    /\ pc = "txns"
    /\ index < Len(CurrentGroup)
    /\ LET txn == CurrentGroup[index + 1]
           window == PushWindow(rollingWindow5, txn.amount)
       IN  /\ rollingWindow5' = window
           /\ \E fpZ \in FpOutcomes(Sigmas(txn.amount, aggregates), 3),
                 fpR \in FpOutcomes(Sigmas(txn.amount, Aggregates(window)), 2) :
                  enrichedResults' =
                      Append(enrichedResults,
                             Enrich(CurrentGroup, index + 1, aggregates, window, fpZ, fpR))
    /\ index' = index + 1
    /\ pc' = IF index + 1 = Len(CurrentGroup) THEN "groups" ELSE "txns"
    /\ UNCHANGED <<transactions, clientGroups, groupKeys, gi, aggregates>>
    /\ UNCHANGED <<metricsVars, stage3Vars, csvVars>>
    /\ UNCHANGED flowVars

\* line 145
Return ==
    /\ pc = "groups"
    /\ gi = Len(groupKeys)
    /\ pc' = "done"
    /\ UNCHANGED <<transactions, clientGroups, groupKeys, gi, index, aggregates, rollingWindow5,
                   enrichedResults>>
    /\ UNCHANGED <<metricsVars, stage3Vars, csvVars>>
    /\ UNCHANGED flowVars

Next == GroupByClient \/ BeginGroup \/ ScoreTxn \/ Return

Spec == Init /\ [][Next]_vars

(***************************************************************************)
(* The pipeline of App.tsx, lines 208-209: processBatchWithFeatures, then  *)
(* runStage3Analysis on the array it returned                              *)
(***************************************************************************)
\* the labelled batches and the longest of the long histories
PipelineInit ==
    /\ \/ IsLabelledBatch(transactions)
       \/ \E pos \in 1..MaxRun : \E a \in Amounts, b \in Amounts :
              \E gap \in RunGaps, l \in {NoLabel, 1} :
                  transactions = RunBatch(MaxRun, a, b, pos, gap, l)
    /\ pc = "start"
    /\ clientGroups = <<>>
    /\ groupKeys = <<>>
    /\ gi = 0
    /\ index = 0
    /\ aggregates = NoAggregates
    /\ rollingWindow5 = <<>>
    /\ enrichedResults = <<>>
    /\ MetricsIdle
    /\ Stage3Idle
    /\ CsvIdle
    /\ StreamIdle
    /\ AppIdle

\* runStage3Analysis (lines 152-281) on the array processBatchWithFeatures
\* returned: the ground truth (157-160), the three models' scores (164-205),
\* the scores written onto the records of that array (208-211), the three
\* metrics and the best model (248-263), the return (274-280)
RunStage3Analysis ==
    /\ pc = "done"
    /\ s3pc = "idle"
    /\ LET n == Len(enrichedResults)
           truth3 == [i \in 1..n |-> GroundTruthOf(enrichedResults[i])]
           labels == [i \in 1..n |-> truth3[i].label]
           rule == [i \in 1..n |-> RuleScoreOf(enrichedResults[i])]
       IN  \E iso \in ScoreLists(enrichedResults, "iso", <<>>),
              logReg \in ScoreLists(enrichedResults, "logReg", <<>>) :
               LET ruleMetrics == CalcMetrics([i \in 1..n |-> RulePred(rule[i])], rule, labels)
                   isoMetrics == CalcMetrics([i \in 1..n |-> IsoPred(iso[i])], iso, labels)
                   logMetrics ==
                       CalcMetrics([i \in 1..n |-> LogRegPred(logReg[i])], logReg, labels)
               IN  /\ groundTruth' = truth3
                   /\ modelScores' = [rule |-> rule, iso |-> iso, logReg |-> logReg]
                   /\ enrichedResults' =
                          [i \in 1..n |-> WithScores(enrichedResults[i], iso[i], logReg[i])]
                   /\ stage3Results' =
                          [ ruleBased |-> ruleMetrics, isolationForest |-> isoMetrics,
                            logisticRegression |-> logMetrics,
                            bestModel |-> BestModel(ruleMetrics, isoMetrics, logMetrics) ]
    /\ s3pc' = "done"
    /\ UNCHANGED <<transactions, pc, clientGroups, groupKeys, gi, index, aggregates,
                   rollingWindow5>>
    /\ UNCHANGED <<metricsVars, csvVars>>
    /\ UNCHANGED flowVars

PipelineNext == GroupByClient \/ BeginGroup \/ ScoreTxn \/ Return \/ RunStage3Analysis

PipelineSpec == PipelineInit /\ [][PipelineNext]_vars

(***************************************************************************)
(* calcMetrics as a state machine                                          *)
(***************************************************************************)
IsGeneralEval(p, s, t) ==
    \E k \in 0..MaxEval : \E f \in [1..k -> EvalFields] :
        /\ p = [i \in 1..k |-> f[i].pred]
        /\ s = [i \in 1..k |-> f[i].score]
        /\ t = [i \in 1..k |-> f[i].truth]

IsCountedEval(p, s, t) ==
    \E tp \in EvalCounts, fp \in EvalCounts, fn \in EvalCounts, tn \in EvalCounts :
        /\ p = CountedInput(tp, fp, fn, tn).preds
        /\ s = CountedInput(tp, fp, fn, tn).scores
        /\ t = CountedInput(tp, fp, fn, tn).truth

IsScenarioD(p, s, t) ==
    /\ p \in [1..Len(ScenarioDScores) -> {0, 1}]
    /\ s = ScenarioDScores
    /\ t = ScenarioDTruth

MetricsInit ==
    /\ BatchIdle
    /\ Stage3Idle
    /\ CsvIdle
    /\ StreamIdle
    /\ AppIdle
    /\ \/ IsGeneralEval(preds, scores, truth)
       \/ IsCountedEval(preds, scores, truth)
       \/ IsScenarioD(preds, scores, truth)
    /\ mpc = "count"
    /\ confusion = NoConfusion
    /\ pairs = <<>>
    /\ walked = 0
    /\ auc = 0
    /\ posCount = 0
    /\ metrics = NoMetrics

\* lines 215-222
CountConfusion ==
    /\ mpc = "count"
    /\ confusion' = Confusion(preds, truth)
    /\ mpc' = "sort"
    /\ UNCHANGED <<preds, scores, truth, pairs, walked, auc, posCount, metrics>>
    /\ UNCHANGED <<batchVars, stage3Vars, csvVars>>
    /\ UNCHANGED flowVars

\* lines 229-231
SortPairs ==
    /\ mpc = "sort"
    /\ pairs' = SortedPairs(scores, truth)
    /\ auc' = 0
    /\ posCount' = 0
    /\ walked' = 0
    /\ mpc' = "walk"
    /\ UNCHANGED <<preds, scores, truth, confusion, metrics>>
    /\ UNCHANGED <<batchVars, stage3Vars, csvVars>>
    /\ UNCHANGED flowVars

\* lines 232-235: one round of pairs.forEach
WalkPair ==
    /\ mpc = "walk"
    /\ walked < Len(pairs)
    /\ IF pairs[walked + 1].t = 1
       THEN posCount' = posCount + 1 /\ auc' = auc
       ELSE auc' = auc + posCount /\ posCount' = posCount
    /\ walked' = walked + 1
    /\ UNCHANGED <<preds, scores, truth, mpc, confusion, pairs, metrics>>
    /\ UNCHANGED <<batchVars, stage3Vars, csvVars>>
    /\ UNCHANGED flowVars

\* lines 224-226 and 236-245
ReturnMetrics ==
    /\ mpc = "walk"
    /\ walked = Len(pairs)
    /\ metrics' = [ precision |-> ToFixed4(Precision(confusion)),
                    recall    |-> ToFixed4(Recall(confusion)),
                    f1Score   |-> ToFixed4(F1Score(Precision(confusion), Recall(confusion))),
                    rocAuc    |-> ToFixed4(RocAuc(auc, truth)) ]
    /\ mpc' = "done"
    /\ UNCHANGED <<preds, scores, truth, confusion, pairs, walked, auc, posCount>>
    /\ UNCHANGED <<batchVars, stage3Vars, csvVars>>
    /\ UNCHANGED flowVars

MetricsNext == CountConfusion \/ SortPairs \/ WalkPair \/ ReturnMetrics

MetricsSpec == MetricsInit /\ [][MetricsNext]_vars

(***************************************************************************)
(* parseCSV as a state machine                                             *)
(***************************************************************************)
CsvInit ==
    /\ IsCsvText(csvText)
    /\ csvPc = "start"
    /\ columns = NoColumns
    /\ dataLines = <<>>
    /\ parsed = <<>>
    /\ BatchIdle
    /\ MetricsIdle
    /\ Stage3Idle
    /\ StreamIdle
    /\ AppIdle

\* lines 146-147: fewer than two lines that are not blank, return []
ReturnEmpty ==
    /\ csvPc = "start"
    /\ Len(NonBlank(csvText)) < 2
    /\ csvPc' = "done"
    /\ UNCHANGED <<csvText, columns, dataLines, parsed>>
    /\ UNCHANGED <<batchVars, metricsVars, stage3Vars>>
    /\ UNCHANGED flowVars

\* lines 149-165: the columns resolved, the data lines cut out
ResolveHeader ==
    /\ csvPc = "start"
    /\ Len(NonBlank(csvText)) >= 2
    /\ columns' = ResolveColumns(Head(NonBlank(csvText)))
    /\ dataLines' = DataLinesOf(NonBlank(csvText))
    /\ csvPc' = "rows"
    /\ UNCHANGED <<csvText, parsed>>
    /\ UNCHANGED <<batchVars, metricsVars, stage3Vars>>
    /\ UNCHANGED flowVars

\* lines 166-182, one call of the map callback: toISOString() throws a
\* RangeError on an invalid date, and parseCSV with it
ParseRow ==
    /\ csvPc = "rows"
    /\ Len(parsed) < Len(dataLines)
    /\ LET i == Len(parsed)
           row == dataLines[i + 1]
           step == NumberOrZero(ParseNumber(CellAt(row, columns.step)))
       IN  IF IsValidDate(step)
           THEN /\ parsed' = Append(parsed, ParsedRow(row, i, columns))
                /\ csvPc' = "rows"
           ELSE /\ csvPc' = "threw"
                /\ UNCHANGED parsed
    /\ UNCHANGED <<csvText, columns, dataLines>>
    /\ UNCHANGED <<batchVars, metricsVars, stage3Vars>>
    /\ UNCHANGED flowVars

\* the array map made is returned
ReturnParsed ==
    /\ csvPc = "rows"
    /\ Len(parsed) = Len(dataLines)
    /\ csvPc' = "done"
    /\ UNCHANGED <<csvText, columns, dataLines, parsed>>
    /\ UNCHANGED <<batchVars, metricsVars, stage3Vars>>
    /\ UNCHANGED flowVars

CsvNext == ReturnEmpty \/ ResolveHeader \/ ParseRow \/ ReturnParsed

CsvSpec == CsvInit /\ [][CsvNext]_vars

(***************************************************************************)
(* analyzeTransaction (fraudEngine.ts, lines 284-295) as a state machine:  *)
(* the history filtered to the client of txn, processBatchWithFeatures on  *)
(* the filtered history followed by txn, the record of txn found by id     *)
(***************************************************************************)
\* the histories: every list of at most MaxHistory transactions, ids 1, 2, ...
MaxHistory == 2

HistoryFields == [clientId : Clients, amount : {48, 1100}, timestamp : Times]

IsHistory(h) ==
    \E k \in 0..MaxHistory : \E f \in [1..k -> HistoryFields] :
        h = [i \in 1..k |-> Txn(i, f[i].clientId, f[i].amount, f[i].timestamp, NoLabel)]

\* the new transaction: an id the history does not hold, a client of the
\* history or one named like an inherited property, a time between or at
\* the times of the history
IsNewTxn(txn, h) ==
    \E c \in Clients \cup {"constructor"}, a \in {48, 1100}, t \in {30, 90} :
        txn = Txn(Len(h) + 1, c, a, t, NoLabel)

\* line 294: results.find(t => t.id === txn.id) || results[results.length - 1]
FindById(results, id) ==
    IF \E i \in 1..Len(results) : results[i].id = id
    THEN results[CHOOSE i \in 1..Len(results) :
                     /\ results[i].id = id
                     /\ \A j \in 1..(i - 1) : results[j].id # id]
    ELSE results[Len(results)]

StreamInit ==
    /\ IsHistory(history)
    /\ IsNewTxn(newTxn, history)
    /\ streamPc = "start"
    /\ analysed = NoRecord
    /\ BatchIdle
    /\ MetricsIdle
    /\ Stage3Idle
    /\ CsvIdle
    /\ AppIdle

\* lines 286-291: the client's history, the batch, the call
FilterHistory ==
    /\ streamPc = "start"
    /\ transactions' = GroupOf(history, newTxn.clientId) \o <<newTxn>>
    /\ pc' = "start"
    /\ clientGroups' = <<>>
    /\ groupKeys' = <<>>
    /\ gi' = 0
    /\ index' = 0
    /\ aggregates' = NoAggregates
    /\ rollingWindow5' = <<>>
    /\ enrichedResults' = <<>>
    /\ streamPc' = "batch"
    /\ UNCHANGED <<history, newTxn, analysed>>
    /\ UNCHANGED <<metricsVars, stage3Vars, csvVars, appVars>>

\* line 294
ReturnAnalysed ==
    /\ streamPc = "batch"
    /\ pc = "done"
    /\ analysed' = FindById(enrichedResults, newTxn.id)
    /\ streamPc' = "returned"
    /\ UNCHANGED <<history, newTxn>>
    /\ UNCHANGED <<batchVars, metricsVars, stage3Vars, csvVars, appVars>>

\* line 291: what processBatchWithFeatures throws is not caught
ThrowAnalysed ==
    /\ streamPc = "batch"
    /\ pc = "threw"
    /\ streamPc' = "threw"
    /\ UNCHANGED <<history, newTxn, analysed>>
    /\ UNCHANGED <<batchVars, metricsVars, stage3Vars, csvVars, appVars>>

StreamNext ==
    \/ FilterHistory
    \/ GroupByClient
    \/ BeginGroup
    \/ ScoreTxn
    \/ Return
    \/ ReturnAnalysed
    \/ ThrowAnalysed

StreamSpec == StreamInit /\ [][StreamNext]_vars

(***************************************************************************)
(* The component of src/App.tsx: the mount effect (lines 82-85), the live  *)
(* interval (lines 87-107), the live switch (line 515) and one upload      *)
(* (handleFileUpload, lines 187-244) with generateBatchReport              *)
(* (geminiService.ts, lines 55-95).  JavaScript runs one job at a time:    *)
(* between two awaits a handler runs to its end, and the steps of          *)
(* processBatchWithFeatures inside it are not interleaved with anything    *)
(* (running).  parseCSV is taken by its result.  Times are minutes after   *)
(* the base date of parseCSV; the amounts of the mock transactions are     *)
(* replaced by whole amounts of the model's range.                         *)
(***************************************************************************)
\* Date.now() when the component is mounted, later than every time of a file
MountTime == 10000

\* constants.ts: three transactions of USR-102 two hours, 30 and 10 minutes
\* ago, one of USR-551 15 minutes ago, one of USR-999 5 minutes ago
MOCK_TRANSACTIONS ==
    << Txn(901, "USR-102", 48, MountTime - 120, NoLabel),
       Txn(902, "USR-102", 1100, MountTime - 30, NoLabel),
       Txn(903, "USR-551", 1100, MountTime - 15, NoLabel),
       Txn(904, "USR-102", 48, MountTime - 10, NoLabel),
       Txn(905, "USR-999", 1101, MountTime - 5, NoLabel) >>

\* what parseCSV returns: at most MaxParsed transactions with ids in row
\* order, a label on each, a time of whole hours
MaxParsed == 2

ParsedFields == [clientId : {"C1", "constructor"}, amount : {48, 1100}, trueLabel : {0, 1}]

IsParsedBatch(txns) ==
    \E k \in 0..MaxParsed : \E f \in [1..k -> ParsedFields] :
        txns = [i \in 1..k |->
                   Txn(i, f[i].clientId, f[i].amount, MinutesPerHour * (i - 1), f[i].trueLabel)]

\* the interval fires at most MaxTicks times
MaxTicks == 2

\* generateRandomTransaction (fraudEngine.ts, lines 297-317): a client
\* USR-100 .. USR-119, a whole amount, the time of the call
IsRandomTransaction(txn, n) ==
    \E a \in {48, 1000} : txn = Txn(1000 + n, "USR-102", a, MountTime + n, NoLabel)

\* line 101: the list holds at most this many transactions
MaxShown == 10000

\* line 570: the modal is given this many transactions when totalProcessed is 0
DefaultShown == 50

\* s.slice(0, n)
Slice(s, n) == SubSeq(s, 1, Min(n, Len(s)))

\* geminiService.ts lines 56-94: what the promise of generateBatchReport
\* resolves to, with or without a key, when the call returns a text, returns
\* none, or throws
GenerateBatchReport(hasKey, outcome) ==
    IF ~hasKey THEN "API Key missing. Please configure it in Settings."
    ELSE IF outcome = "text" THEN "FRAUDDETECT STAGE 1 ANALYSIS REPORT"
    ELSE IF outcome = "empty" THEN "Report generation failed."
    ELSE "Report unavailable. Check your API Key."

BatchReset ==
    /\ pc' = "start"
    /\ clientGroups' = <<>>
    /\ groupKeys' = <<>>
    /\ gi' = 0
    /\ index' = 0
    /\ aggregates' = NoAggregates
    /\ rollingWindow5' = <<>>
    /\ enrichedResults' = <<>>

AppInit ==
    /\ AppIdle
    /\ StreamIdle
    /\ BatchIdle
    /\ MetricsIdle
    /\ Stage3Idle
    /\ CsvIdle

\* lines 82-83: the mount effect calls processBatchWithFeatures
Mount ==
    /\ running = "unmounted"
    /\ running' = "mount"
    /\ transactions' = MOCK_TRANSACTIONS
    /\ BatchReset
    /\ UNCHANGED <<upPc, isProcessing, isLive, shownTransactions, rawTransactions,
                   enrichedBatch, analysisResult, showAnalysisModal, modalTransactions, ticks>>
    /\ UNCHANGED <<metricsVars, stage3Vars, csvVars, streamVars>>

\* line 84
MountDone ==
    /\ running = "mount"
    /\ pc = "done"
    /\ shownTransactions' = enrichedResults
    /\ running' = "none"
    /\ UNCHANGED <<upPc, isProcessing, isLive, rawTransactions, enrichedBatch, analysisResult,
                   showAnalysisModal, modalTransactions, ticks>>
    /\ UNCHANGED <<batchVars, metricsVars, stage3Vars, csvVars, streamVars>>

\* line 515; the effect of lines 87-107 sets or clears the interval
ToggleLive ==
    /\ running = "none"
    /\ isLive' = ~isLive
    /\ UNCHANGED <<running, upPc, isProcessing, shownTransactions, rawTransactions,
                   enrichedBatch, analysisResult, showAnalysisModal, modalTransactions, ticks>>
    /\ UNCHANGED <<batchVars, metricsVars, stage3Vars, csvVars, streamVars>>

\* lines 90-92: the interval fires, the call of analyzeTransaction with the
\* list the ref holds
Tick ==
    /\ running = "none"
    /\ isLive
    /\ ticks < MaxTicks
    /\ ticks' = ticks + 1
    /\ IsRandomTransaction(newTxn', ticks + 1)
    /\ history' = shownTransactions
    /\ streamPc' = "start"
    /\ analysed' = NoRecord
    /\ running' = "tick"
    /\ UNCHANGED <<upPc, isProcessing, isLive, shownTransactions, rawTransactions,
                   enrichedBatch, analysisResult, showAnalysisModal, modalTransactions>>
    /\ UNCHANGED <<batchVars, metricsVars, stage3Vars, csvVars>>

\* lines 98-102: the record analyzeTransaction returned is put first
TickDone ==
    /\ running = "tick"
    /\ streamPc = "returned"
    /\ shownTransactions' = Slice(<<analysed>> \o shownTransactions, MaxShown)
    /\ streamPc' = "idle"
    /\ running' = "none"
    /\ UNCHANGED <<history, newTxn, analysed>>
    /\ UNCHANGED <<upPc, isProcessing, isLive, rawTransactions, enrichedBatch, analysisResult,
                   showAnalysisModal, modalTransactions, ticks>>
    /\ UNCHANGED <<batchVars, metricsVars, stage3Vars, csvVars>>

\* lines 187-193 and 243, behind the click of line 334: a file is chosen
HandleFileUpload ==
    /\ running = "none"
    /\ upPc = "idle"
    /\ ~isProcessing
    /\ isProcessing' = TRUE
    /\ upPc' = "reading"
    /\ UNCHANGED <<running, isLive, shownTransactions, rawTransactions, enrichedBatch,
                   analysisResult, showAnalysisModal, modalTransactions, ticks>>
    /\ UNCHANGED <<batchVars, metricsVars, stage3Vars, csvVars, streamVars>>

\* lines 195-206: reader.onload up to its first await; parseCSV throws, or
\* returns no transaction, or returns some
OnLoad ==
    /\ running = "none"
    /\ upPc = "reading"
    /\ \/ /\ upPc' = "parseThrew"
          /\ UNCHANGED <<rawTransactions, isProcessing>>
       \/ /\ IsParsedBatch(rawTransactions')
          /\ IF rawTransactions' = <<>>
             THEN isProcessing' = FALSE /\ upPc' = "rejected"
             ELSE isProcessing' = isProcessing /\ upPc' = "sleeping"
    /\ UNCHANGED <<running, isLive, shownTransactions, enrichedBatch, analysisResult,
                   showAnalysisModal, modalTransactions, ticks>>
    /\ UNCHANGED <<batchVars, metricsVars, stage3Vars, csvVars, streamVars>>

\* lines 206-208: the timer has run out, processBatchWithFeatures is called
WakeUp ==
    /\ running = "none"
    /\ upPc = "sleeping"
    /\ upPc' = "processing"
    /\ running' = "upload"
    /\ transactions' = rawTransactions
    /\ BatchReset
    /\ UNCHANGED <<isProcessing, isLive, shownTransactions, rawTransactions, enrichedBatch,
                   analysisResult, showAnalysisModal, modalTransactions, ticks>>
    /\ UNCHANGED <<metricsVars, stage3Vars, csvVars, streamVars>>

\* line 208: what processBatchWithFeatures throws is not caught, and the
\* promise of reader.onload is rejected
UploadThrows ==
    /\ running = "upload"
    /\ pc = "threw"
    /\ upPc' = "threw"
    /\ running' = "none"
    /\ UNCHANGED <<isProcessing, isLive, shownTransactions, rawTransactions, enrichedBatch,
                   analysisResult, showAnalysisModal, modalTransactions, ticks>>
    /\ UNCHANGED <<batchVars, metricsVars, stage3Vars, csvVars, streamVars>>

\* lines 228-239, and the render after them (line 570)
Publish(report, batch, shown) ==
    /\ analysisResult' = [totalProcessed |-> Len(batch), reportContent |-> report,
                          stage3 |-> stage3Results]
    /\ isProcessing' = FALSE
    /\ showAnalysisModal' = TRUE
    /\ modalTransactions' = Slice(shown, IF Len(batch) # 0 THEN Len(batch) ELSE DefaultShown)
    /\ upPc' = "done"

\* lines 211-226: the enriched batch replaces the list, generateBatchReport is
\* called; without a key its promise is resolved already, and reader.onload
\* goes on to its end before any other job
ShowBatch ==
    /\ running = "upload"
    /\ upPc = "processing"
    /\ s3pc = "done"
    /\ shownTransactions' = enrichedResults
    /\ enrichedBatch' = enrichedResults
    /\ running' = "none"
    /\ \E hasKey \in BOOLEAN :
           IF hasKey
           THEN /\ upPc' = "reporting"
                /\ UNCHANGED <<isProcessing, analysisResult, showAnalysisModal,
                               modalTransactions>>
           ELSE Publish(GenerateBatchReport(FALSE, "text"), enrichedResults, enrichedResults)
    /\ UNCHANGED <<isLive, rawTransactions, ticks>>
    /\ UNCHANGED <<batchVars, metricsVars, stage3Vars, csvVars, streamVars>>

\* lines 226-241: the call of the API has returned or thrown, reader.onload
\* goes on to its end
ReportSettles ==
    /\ running = "none"
    /\ upPc = "reporting"
    /\ \E outcome \in {"text", "empty", "throws"} :
           Publish(GenerateBatchReport(TRUE, outcome), enrichedBatch, shownTransactions)
    /\ UNCHANGED <<running, isLive, shownTransactions, rawTransactions, enrichedBatch, ticks>>
    /\ UNCHANGED <<batchVars, metricsVars, stage3Vars, csvVars, streamVars>>

AppNext ==
    \/ Mount
    \/ MountDone
    \/ GroupByClient
    \/ BeginGroup
    \/ ScoreTxn
    \/ Return
    \/ ToggleLive
    \/ Tick
    \/ FilterHistory
    \/ ReturnAnalysed
    \/ TickDone
    \/ HandleFileUpload
    \/ OnLoad
    \/ WakeUp
    \/ (running = "upload" /\ RunStage3Analysis)
    \/ UploadThrows
    \/ ShowBatch
    \/ ReportSettles

AppSpec == AppInit /\ [][AppNext]_vars

(***************************************************************************)
(* Properties of processBatchWithFeatures (Spec)                           *)
(***************************************************************************)
\* the records pushed so far; at pc = "done", the records returned
Records == {enrichedResults[i] : i \in 1..Len(enrichedResults)}

HasTrigger(e, text) == \E k \in 1..Len(e.ruleTriggered) : e.ruleTriggered[k].text = text

\* C1: every record processBatchWithFeatures returns has 0 <= fraudScore <= 1
\* (fraudScore is in hundredths): the sum of the rule contributions is
\* capped at 1.0 and is never negative.
C1_FraudScoreInUnitInterval == \A e \in Records : e.fraudScore >= 0 /\ e.fraudScore <= 100

\* a returned record on which all five rules fired (the sum 1.05 was capped)
C1_AllRulesFired ==
    /\ pc = "done"
    /\ \E e \in Records :
        /\ e.fraudScore = 100
        /\ Len(e.ruleTriggered) = 4
        /\ IsRoundNumber(e.amount)

\* C2: for every record, isSuspicious is true if and only if the stored
\* fraudScore is >= 0.5.
C2_SuspiciousIffAtLeastHalf == \A e \in Records : e.isSuspicious <=> e.fraudScore >= 50

\* a returned batch with a record at exactly 0.5 (suspicious) and one at 0.45
\* (not suspicious)
C2_BothSidesOfHalf ==
    /\ pc = "done"
    /\ \E e \in Records : e.fraudScore = 50 /\ e.isSuspicious
    /\ \E e \in Records : e.fraudScore = 45 /\ ~e.isSuspicious

\* C3: for every record, riskLevel is determined by the stored fraudScore
\* alone: CRITICAL above 0.8, otherwise HIGH above 0.5, otherwise MEDIUM above
\* 0.3, otherwise LOW, so two records with equal fraudScore have equal
\* riskLevel.
C3_RiskLevelFromFraudScore ==
    \A e \in Records :
        e.riskLevel = IF e.fraudScore > 80 THEN "CRITICAL"
                      ELSE IF e.fraudScore > 50 THEN "HIGH"
                      ELSE IF e.fraudScore > 30 THEN "MEDIUM"
                      ELSE "LOW"

\* a returned record on which exactly rule 3 and rule 5 fired: the double sum
\* 0.2 + 0.1 is above 0.3 and is stored as 0.3
C3_RuleThreePlusRuleFive ==
    /\ pc = "done"
    /\ \E e \in Records :
        /\ e.fraudScore = 30
        /\ e.riskLevel = "MEDIUM"
        /\ e.is_rapid_transaction
        /\ IsRoundNumber(e.amount)
        /\ Len(e.ruleTriggered) = 1

\* C4 as stated: every record whose fraudScore is exactly 0.5 is classified
\* HIGH and has isSuspicious true.
C4_HalfIsHigh ==
    \A e \in Records : e.fraudScore = 50 => e.riskLevel = "HIGH" /\ e.isSuspicious

\* C4: every record whose fraudScore is exactly 0.5 (rule 1 plus rule 3) is
\* classified MEDIUM, HIGH being for scores strictly above 0.5, and has
\* isSuspicious true.
C4_HalfIsMedium ==
    \A e \in Records : e.fraudScore = 50 => e.riskLevel = "MEDIUM" /\ e.isSuspicious

\* a returned record on which exactly rule 1 and rule 3 fired
C4_RuleOnePlusRuleThree ==
    /\ pc = "done"
    /\ \E e \in Records :
        /\ e.fraudScore = 50
        /\ Len(e.ruleTriggered) = 2
        /\ HasTrigger(e, "Z-Score Anomaly")
        /\ HasTrigger(e, "Rapid Sequence (Same Step)")

\* the records of Scenario A's 1000 transaction
ScenarioARecords ==
    IF AmountsOf(transactions) = ScenarioAAmounts /\ IsScenarioA(transactions)
    THEN {e \in Records : e.amount = 1000}
    ELSE {}

\* C5 as stated: in Scenario A (one client, amounts 10, 10, 10, 10, 1000 in
\* ascending time order) the 1000 transaction has |zScore| > 3 and
\* is_amount_outlier = true, its trigger text contains both 'Z-Score Anomaly'
\* and 'Max Amount for Client', and its fraudScore is at least 0.55.
C5_ScenarioAIsOutlier ==
    \A e \in ScenarioARecords :
        /\ Abs(e.amount_zscore) > 300
        /\ e.is_amount_outlier
        /\ HasTrigger(e, "Z-Score Anomaly")
        /\ HasTrigger(e, "Max Amount for Client")
        /\ e.fraudScore >= 55

\* C5: in Scenario A the 1000 transaction has zScore exactly 2 (mean 208,
\* std 396), so is_amount_outlier = false; its trigger text contains 'Max
\* Amount for Client' but not 'Z-Score Anomaly'; its fraudScore is 0.45 when
\* it follows the previous transaction within an hour and 0.25 otherwise.
C5_ScenarioAIsTwoSigmas ==
    \A e \in ScenarioARecords :
        /\ e.client_amount_mean = 20800
        /\ e.client_amount_std = 39600
        /\ e.amount_zscore = 200
        /\ ~e.is_amount_outlier
        /\ ~HasTrigger(e, "Z-Score Anomaly")
        /\ HasTrigger(e, "Max Amount for Client")
        /\ e.fraudScore = IF e.is_rapid_transaction THEN 45 ELSE 25

\* Scenario A returned, the 1000 transaction scored 0.45
C5_ScenarioAReturned ==
    /\ pc = "done"
    /\ \E e \in ScenarioARecords : e.fraudScore = 45 /\ e.is_rapid_transaction

\* the sum of (s[i] - s[j])^2 over the pairs i < j
RECURSIVE PairwiseSqDiff(_)
PairwiseSqDiff(s) ==
    IF Len(s) < 2 THEN 0
    ELSE SumSeq([i \in 1..(Len(s) - 1) |-> (s[1] - s[i + 1]) * (s[1] - s[i + 1])])
         + PairwiseSqDiff(Tail(s))

\* the amounts of a client in the batch
ClientAmounts(c) ==
    {transactions[i].amount : i \in {j \in 1..Len(transactions) : transactions[j].clientId = c}}

\* C9 as stated: for every client group, the standard deviation used for the
\* z-score and reported as client_amount_std is at least 1.
C9_StdAtLeastOne ==
    /\ pc = "txns" => aggregates.std.rad >= aggregates.std.den * aggregates.std.den
    /\ \A e \in Records : e.client_amount_std >= 100

\* C9: for every client group, the standard deviation used for the z-score
\* is never zero: it is 1 when the computed population standard deviation is
\* 0 (all amounts equal, reported as client_amount_std 1) and the computed
\* population standard deviation otherwise, which can be below 1 (0.5 for a
\* client with amounts 1 and 2).
C9_StdNeverZero ==
    /\ pc = "txns" =>
        LET s == AmountsOf(CurrentGroup)
        IN  /\ aggregates.std.rad > 0
            /\ aggregates.std.den > 0
            /\ aggregates.std = IF PairwiseSqDiff(s) = 0 THEN [rad |-> 1, den |-> 1]
                                ELSE [rad |-> PairwiseSqDiff(s), den |-> Len(s)]
    /\ \A e \in Records :
        Cardinality(ClientAmounts(e.clientId)) = 1 => e.client_amount_std = 100

\* the client with amounts 1 and 2 returned, its deviation 0.5
C9_SmallPairReturned ==
    /\ pc = "done"
    /\ AmountsOf(transactions) = SmallPairAmounts
    /\ IsSmallPair(transactions)
    /\ \A e \in Records : e.client_amount_std = 50

C11_WindowIsLastFive ==
    /\ Len(rollingWindow5) <= 5
    /\ gi > 0 =>
        LET held == IF index < 5 THEN index ELSE 5
        IN  /\ Len(rollingWindow5) = held
            /\ \A k \in 1..held :
                   rollingWindow5[k] = CurrentGroup[index - held + k].amount
            /\ index > 0 =>
                   enrichedResults[Len(enrichedResults)].amount_rolling_mean_5 =
                       RoundDiv(100 * SumSeq(rollingWindow5), held)

\* inside a group, past the sixth transaction, the window holding five amounts
\* that are not all the same
C11_WindowSlid ==
    /\ pc = "txns"
    /\ index >= 6
    /\ Len(rollingWindow5) = 5
    /\ \E k \in 2..5 : rollingWindow5[k] # rollingWindow5[1]

\* the input transactions of e's client that come before e chronologically
\* (for equal timestamps, earlier in the input)
EarlierOfClient(e) ==
    {t \in {transactions[i] : i \in 1..Len(transactions)} :
        /\ t.clientId = e.clientId
        /\ \/ t.timestamp < e.timestamp
           \/ t.timestamp = e.timestamp /\ t.id < e.id}

\* minutes from the chronologically previous transaction of e's client to e
MinutesSincePrevious(e) ==
    LET times == {t.timestamp : t \in EarlierOfClient(e)}
    IN  e.timestamp - (CHOOSE m \in times : \A t \in times : t <= m)

CountOfClient(c) == Cardinality({i \in 1..Len(transactions) : transactions[i].clientId = c})

\* C13 (Scenario E): for every client group of size 1 the single record has
\* client std 1, zScore 0, is_rapid_transaction false, no 'Max Amount for
\* Client' trigger although it is the client's maximum, riskLevel LOW and
\* isSuspicious false; only the round-number rule can add to its score.
C13_SingleTransactionClient ==
    \A e \in Records :
        CountOfClient(e.clientId) = 1 =>
            /\ e.client_amount_std = 100
            /\ e.amount_zscore = 0
            /\ ~e.is_amount_outlier
            /\ ~e.is_rapid_transaction
            /\ e.ruleTriggered = <<>>
            /\ e.riskLevel = "LOW"
            /\ ~e.isSuspicious
            /\ e.fraudScore = IF IsRoundNumber(e.amount) THEN 10 ELSE 0

\* a returned batch of two clients with one transaction each, one of a round
\* amount
C13_TwoSingleClients ==
    /\ pc = "done"
    /\ Len(enrichedResults) = 2
    /\ enrichedResults[1].clientId # enrichedResults[2].clientId
    /\ enrichedResults[1].fraudScore = 10
    /\ enrichedResults[2].fraudScore = 0

\* C17: processBatchWithFeatures returns exactly one enriched record per
\* input transaction (the same ids, none dropped or duplicated), and each
\* record's client_transaction_count is the number of input transactions with
\* the same clientId, the record itself counted.
C17_OneRecordPerTransaction ==
    /\ pc # "threw"
    /\ pc = "done" =>
        /\ Len(enrichedResults) = Len(transactions)
        /\ \A i \in 1..Len(transactions) :
               Cardinality({k \in 1..Len(enrichedResults) :
                               enrichedResults[k].id = transactions[i].id}) = 1
        /\ \A e \in Records :
               e.client_transaction_count = CountOfClient(e.clientId) /\ CountOfClient(e.clientId) >= 1

\* a batch whose transactions have ordinary clientIds only gets one record per
\* transaction; a batch holding a transaction whose clientId is "constructor"
\* ends in a TypeError
C17_ThrewOnInheritedKey ==
    /\ pc = "threw"
    /\ transactions[Len(transactions)].clientId = "constructor"
    /\ enrichedResults = <<>>

\* the input transactions of client c from position i on, in input order
RECURSIVE OwnFrom(_, _)
OwnFrom(i, c) ==
    IF i > Len(transactions) THEN <<>>
    ELSE (IF transactions[i].clientId = c THEN <<transactions[i]>> ELSE <<>>) \o OwnFrom(i + 1, c)

\* the input transactions of client c, in input order
OwnTransactions(c) == OwnFrom(1, c)

\* what the function computes for the transaction at position pos of the
\* time-sorted list own, computed from that list alone; how the doubles fall
\* at a threshold (FpOutcomes) is decided by the amounts in the list
IsComputedFrom(e, own, pos) ==
    LET held == IF pos < 5 THEN pos ELSE 5
        window == [k \in 1..held |-> own[pos - held + k].amount]
        agg == Aggregates(AmountsOf(own))
    IN  \E fpZ \in FpOutcomes(Sigmas(own[pos].amount, agg), 3),
           fpR \in FpOutcomes(Sigmas(own[pos].amount, Aggregates(window)), 2) :
            LET computed == Enrich(own, pos, agg, window, fpZ, fpR)
            IN  \A field \in DOMAIN computed : e[field] = computed[field]

\* the record pushed last
LastRecord == enrichedResults[Len(enrichedResults)]

\* C16 (client isolation): every feature, fraudScore, isSuspicious, riskLevel
\* and trigger text computed for a transaction of client c is determined by
\* the sequence of c's transactions in the batch alone, so it is the same in
\* any two batches that contain the same sequence of transactions for c,
\* whatever transactions of other clients they contain.  (Stated of each
\* record when it is pushed.)
C16_ClientIsolation ==
    enrichedResults # <<>> =>
        LET own == SortByTime(OwnTransactions(LastRecord.clientId))
        IN  \E pos \in 1..Len(own) :
                own[pos].id = LastRecord.id /\ IsComputedFrom(LastRecord, own, pos)

\* a returned batch in which a transaction of another client stands between
\* two transactions of one client
C16_Interleaved ==
    /\ pc = "done"
    /\ Len(transactions) = 3
    /\ transactions[1].clientId = transactions[3].clientId
    /\ transactions[2].clientId # transactions[1].clientId
    /\ Len(enrichedResults) = 3
    /\ enrichedResults[1].clientId = enrichedResults[2].clientId

\* the amounts of e's client in chronological order up to e, and the at most
\* five latest of them
AmountsUpTo(e) ==
    LET own == SortByTime(OwnTransactions(e.clientId))
        pos == CHOOSE p \in 1..Len(own) : own[p].id = e.id
    IN  [k \in 1..pos |-> own[k].amount]

LastFive(s) == IF Len(s) <= 5 THEN s ELSE SubSeq(s, Len(s) - 4, Len(s))

\* with the population deviation of the amounts s, whether |amount - mean|
\* is more than (at least) k deviations, by the squares:
\* (n * amount - sum)^2 against k^2 times the sum of the squared differences
\* of the pairs (the deviation is taken as 1 where it is 0)
DeviatesMore(amount, s, k) ==
    LET d == Len(s) * amount - SumSeq(s)
    IN  d * d > k * k * PairwiseSqDiff(s)

DeviatesAtLeast(amount, s, k) ==
    LET d == Len(s) * amount - SumSeq(s)
    IN  d # 0 /\ d * d >= k * k * PairwiseSqDiff(s)

\* a rule that compares a computed double with its threshold fired when the
\* value is above it and only when the value is not below it
FiredAsComputed(fired, amount, s, k) ==
    /\ DeviatesMore(amount, s, k) => fired
    /\ fired => DeviatesAtLeast(amount, s, k)

RuleTexts ==
    <<"Z-Score Anomaly", "Max Amount for Client", "Rapid Sequence (Same Step)",
      "Rolling Deviation">>

\* the texts of RuleTexts whose rule is in the set fired, in that order
RECURSIVE TextsOf(_, _)
TextsOf(k, fired) ==
    IF k > Len(RuleTexts) THEN <<>>
    ELSE (IF k \in fired THEN <<RuleTexts[k]>> ELSE <<>>) \o TextsOf(k + 1, fired)

\* C23: for every record, fraudScore is min(1, the sum of the contributions
\* of the rules that fired): rule 1 (|zScore| > 3, the flag is_amount_outlier)
\* 0.30, rule 2 (the amount is the client's maximum and the group has more
\* than one transaction) 0.25, rule 3 (is_rapid_transaction) 0.20, rule 4
\* (|amount_vs_rolling_mean| > 2) 0.20, rule 5 (amount > 1000 and a multiple
\* of 100) 0.10; the trigger text holds the description of rule k (1..4) if
\* and only if rule k fired, in the order 1, 2, 3, 4, and rule 5 adds none.
\* (Stated of each record when it is pushed.)
C23_ScoreIsCappedRuleSum ==
    enrichedResults # <<>> =>
        LET e == LastRecord
            own == AmountsOf(OwnTransactions(e.clientId))
            r1 == e.is_amount_outlier
            r2 == Len(own) > 1 /\ \A k \in 1..Len(own) : own[k] <= e.amount
            r3 == e.is_rapid_transaction
            r4 == HasTrigger(e, "Rolling Deviation")
            r5 == e.amount > 1000 /\ e.amount % 100 = 0
            sum == (IF r1 THEN 30 ELSE 0) + (IF r2 THEN 25 ELSE 0) + (IF r3 THEN 20 ELSE 0)
                   + (IF r4 THEN 20 ELSE 0) + (IF r5 THEN 10 ELSE 0)
            fired == {k \in 1..4 : <<r1, r2, r3, r4>>[k]}
        IN  /\ FiredAsComputed(r1, e.amount, own, 3)
            /\ FiredAsComputed(r4, e.amount, LastFive(AmountsUpTo(e)), 2)
            /\ e.fraudScore = IF sum > 100 THEN 100 ELSE sum
            /\ [k \in 1..Len(e.ruleTriggered) |-> e.ruleTriggered[k].text] = TextsOf(1, fired)

\* a returned batch with a record on which exactly rules 2, 3 and 5 fired
\* (0.55, two texts) and a record on which none did
C23_RulesTwoThreeFive ==
    /\ pc = "done"
    /\ \E e \in Records :
        /\ e.fraudScore = 55
        /\ e.amount = 1100
        /\ Len(e.ruleTriggered) = 2
        /\ e.ruleTriggered[1].text = "Max Amount for Client"
        /\ e.ruleTriggered[2].text = "Rapid Sequence (Same Step)"
    /\ \E e \in Records : e.fraudScore = 0 /\ e.ruleTriggered = <<>>

\* C24: within each client group the records are processed (and pushed) in
\* ascending timestamp order, transactions of equal timestamps in their input
\* order (ids number the input), and so time_since_last_trans is >= 0 for
\* every record, whatever the order of the input batch.  (Stated of each
\* record when it is pushed, against the records pushed before it.)
C24_ChronologicalAndStable ==
    enrichedResults # <<>> =>
        /\ \A i \in 1..(Len(enrichedResults) - 1) :
               enrichedResults[i].clientId = LastRecord.clientId =>
                   \/ enrichedResults[i].timestamp < LastRecord.timestamp
                   \/ /\ enrichedResults[i].timestamp = LastRecord.timestamp
                      /\ enrichedResults[i].id < LastRecord.id
        /\ LastRecord.time_since_last_trans >= 0

\* a returned batch of one client whose input had the later transaction first
C24_LaterFirstInInput ==
    /\ pc = "done"
    /\ Len(transactions) = 2
    /\ transactions[1].clientId = transactions[2].clientId
    /\ transactions[1].timestamp = 90
    /\ transactions[2].timestamp = 0
    /\ Len(enrichedResults) = 2
    /\ enrichedResults[1].id = 2
    /\ enrichedResults[2].id = 1
    /\ enrichedResults[2].time_since_last_trans = 150

\* C25 as stated: rule 4 can never fire: for every record the amount is at
\* most 2 rolling deviations from the rolling mean of its window, no record
\* carries a 'Rolling Deviation' trigger, the rule sum never exceeds 0.85 and
\* so the cap never changes the score.
C25_RuleFourNeverFires ==
    \A e \in Records :
        /\ ~DeviatesMore(e.amount, LastFive(AmountsUpTo(e)), 2)
        /\ ~HasTrigger(e, "Rolling Deviation")
        /\ e.fraudScore <= 85

\* one client's amounts 48, 48, 48, 48, 1100 in time order returned: the fifth
\* record carries 'Rolling Deviation (2.0 sigma)'
C25_FifthAmountTriggered ==
    /\ pc = "done"
    /\ AmountsOf(transactions) = <<48, 48, 48, 48, 1100>>
    /\ Len(enrichedResults) = 5
    /\ \E k \in 1..Len(enrichedResults[5].ruleTriggered) :
           enrichedResults[5].ruleTriggered[k] = Trigger("Rolling Deviation", 20)
    /\ ~DeviatesMore(1100, <<48, 48, 48, 48, 1100>>, 2)

\* C26 as stated: in every client group of at most 10 transactions no record
\* has |zScore| > 3: is_amount_outlier is false and the 'Z-Score Anomaly' rule
\* fires for no record of the group.
C26_NoOutlierUpToTen ==
    \A e \in Records :
        e.client_transaction_count <= 10 =>
            /\ ~e.is_amount_outlier
            /\ ~HasTrigger(e, "Z-Score Anomaly")

\* one client's ten amounts, nine of 1100 and then 1101, returned: the tenth
\* record is an outlier and carries 'Z-Score Anomaly (3.0 sigma)'
C26_TenthAmountOutlier ==
    /\ pc = "done"
    /\ AmountsOf(transactions) = [i \in 1..10 |-> IF i = 10 THEN 1101 ELSE 1100]
    /\ Len(enrichedResults) = 10
    /\ enrichedResults[10].is_amount_outlier
    /\ enrichedResults[10].ruleTriggered[1] = Trigger("Z-Score Anomaly", 30)
    /\ ~DeviatesMore(1101, AmountsOf(transactions), 3)

(***************************************************************************)
(* Properties of calcMetrics (MetricsSpec)                                 *)
(***************************************************************************)
IsScenarioDRun == scores = ScenarioDScores /\ truth = ScenarioDTruth

\* C6 as stated: in Scenario D (scores 0.9, 0.8, 0.3, 0.2 with ground truth
\* 1, 0, 1, 0) calcMetrics returns rocAuc 0.5 from the rank walk.
C6_ScenarioDAucIsHalf == (mpc = "done" /\ IsScenarioDRun) => metrics.rocAuc = 5000

\* C6: in Scenario D the rank walk (sort by score descending, add the running
\* positive count at each negative, divide by totalPos x totalNeg) adds 1 at
\* the score 0.8 and 2 at the score 0.2, and calcMetrics returns rocAuc
\* 3 / 4 = 0.75.
C6_ScenarioDAucIsThreeQuarters ==
    (mpc = "done" /\ IsScenarioDRun) => auc = 3 /\ metrics.rocAuc = 7500

\* Scenario D returned
C6_ScenarioDReturned == mpc = "done" /\ IsScenarioDRun /\ posCount = 2

\* the labels seen by the walk so far
WalkedLabels(label) == {i \in 1..walked : pairs[i].t = label}

\* C7: for every list of scores and 0/1 labels the rocAuc calcMetrics returns
\* lies in [0, 1], and it is exactly 0.5 whenever all labels are identical
\* (no positives or no negatives), the empty batch included.
C7_AucInUnitInterval ==
    /\ mpc \in {"walk", "done"} =>
        auc >= 0 /\ auc <= Cardinality(WalkedLabels(1)) * Cardinality(WalkedLabels(0))
    /\ mpc = "done" =>
        /\ metrics.rocAuc >= 0
        /\ metrics.rocAuc <= 10000
        /\ (\A i, j \in 1..Len(truth) : truth[i] = truth[j]) => metrics.rocAuc = 5000

\* a batch with positives only returned
C7_OnlyPositivesReturned ==
    /\ mpc = "done"
    /\ Len(truth) >= 2
    /\ \A i \in 1..Len(truth) : truth[i] = 1
    /\ metrics.rocAuc = 5000

\* the indices with this truth and this prediction
Cell(actual, pred) == {i \in 1..Len(truth) : truth[i] = actual /\ preds[i] = pred}

\* C8: for every list of predictions and 0/1 labels, calcMetrics returns
\* precision = tp / (tp + fp), recall = tp / (tp + fn) and
\* f1 = 2 * precision * recall / (precision + recall) over the confusion
\* counts, each 0 when its denominator is 0, so each lies in [0, 1];
\* tp = 8, fp = 2, fn = 2, tn = 8 gives precision = recall = f1 = 0.8.
C8_PrecisionRecallF1 ==
    mpc = "done" =>
        LET tp == Cardinality(Cell(1, 1))
            fp == Cardinality(Cell(0, 1))
            fn == Cardinality(Cell(1, 0))
            tn == Cardinality(Cell(0, 0))
        IN  /\ confusion = [tp |-> tp, fp |-> fp, fn |-> fn, tn |-> tn]
            /\ metrics.precision = IF tp + fp = 0 THEN 0 ELSE RoundDiv(10000 * tp, tp + fp)
            /\ metrics.recall = IF tp + fn = 0 THEN 0 ELSE RoundDiv(10000 * tp, tp + fn)
            /\ metrics.f1Score = IF tp = 0 THEN 0
                                 ELSE RoundDiv(10000 * 2 * tp, 2 * tp + fp + fn)
            /\ \A m \in {metrics.precision, metrics.recall, metrics.f1Score} :
                   m >= 0 /\ m <= 10000
            /\ (tp = 8 /\ fp = 2 /\ fn = 2 /\ tn = 8) =>
                   metrics.precision = 8000 /\ metrics.recall = 8000 /\ metrics.f1Score = 8000

\* Scenario C returned: tp = 8, fp = 2, fn = 2, tn = 8
C8_ScenarioCReturned ==
    /\ mpc = "done"
    /\ confusion = [tp |-> 8, fp |-> 2, fn |-> 2, tn |-> 8]
    /\ metrics.f1Score = 8000

\* the (positive, negative) pairs of indices of the input, and among them
\* those the positive wins and those with equal scores
LabelPairs == {pn \in (1..Len(truth)) \X (1..Len(truth)) : truth[pn[1]] = 1 /\ truth[pn[2]] = 0}

WonPairs == {pn \in LabelPairs : scores[pn[1]] > scores[pn[2]]}

TiedPairs == {pn \in LabelPairs : scores[pn[1]] = scores[pn[2]]}

\* C22 as stated: for every list of scores and 0/1 labels with a positive and
\* a negative, the rocAuc calcMetrics returns is the Mann-Whitney statistic:
\* the pairs (positive, negative) the positive wins plus half of the pairs
\* with equal scores, over totalPositives x totalNegatives.
C22_AucIsMannWhitney ==
    (mpc = "done" /\ LabelPairs # {}) =>
        metrics.rocAuc = ToFixed4(Ratio(2 * Cardinality(WonPairs) + Cardinality(TiedPairs),
                                        2 * Cardinality(LabelPairs)))

\* one positive and one negative of equal scores, the positive first in the
\* input: the walk counted the tied pair as won and returned rocAuc 1
C22_TiedPairCountedWhole ==
    /\ mpc = "done"
    /\ truth = <<1, 0>>
    /\ scores[1] = scores[2]
    /\ auc = 1
    /\ metrics.rocAuc = 10000

(***************************************************************************)
(* Properties of runStage3Analysis (PipelineSpec)                          *)
(***************************************************************************)
\* the strategies in the order they are evaluated, and their rocAuc
ModelNames == <<"Rule-Based", "IsolationForest", "LogisticRegression">>

ModelAucs ==
    <<stage3Results.ruleBased.rocAuc, stage3Results.isolationForest.rocAuc,
      stage3Results.logisticRegression.rocAuc>>

\* C14: bestModel is one of the three strategies, its rocAuc is the greatest of
\* the three, and every strategy evaluated before it has a smaller rocAuc
C14_BestModelIsEarliestMaximum ==
    s3pc = "done" =>
        \E k \in 1..3 :
            /\ stage3Results.bestModel = ModelNames[k]
            /\ \A j \in 1..3 : ModelAucs[j] <= ModelAucs[k]
            /\ \A j \in 1..(k - 1) : ModelAucs[j] < ModelAucs[k]

\* a tie for the greatest rocAuc between the second and the third strategy,
\* above the first
C14_TieAboveRuleBased ==
    /\ s3pc = "done"
    /\ ModelAucs[2] = ModelAucs[3]
    /\ ModelAucs[1] < ModelAucs[2]
    /\ stage3Results.bestModel = "IsolationForest"

\* some transaction of the batch carries a trueLabel
SomeLabelled == \E i \in 1..Len(transactions) : transactions[i].trueLabel # NoLabel

\* C15 as stated: in a batch where some transaction carries a trueLabel, no
\* transaction's ground truth is taken from the fraudScore heuristic
C15_NoHeuristicInLabelledBatch ==
    (s3pc = "done" /\ SomeLabelled) =>
        \A j \in 1..Len(groundTruth) : groundTruth[j].source # "fraudScore"

\* C15, amended: the choice is made per transaction -- the ground truth of a
\* transaction is its trueLabel when it carries one, and fraudScore > 0.7
\* when it carries none, whatever the other transactions of the batch carry
C15_HeuristicPerTransaction ==
    s3pc = "done" =>
        /\ Len(groundTruth) = Len(enrichedResults)
        /\ \A j \in 1..Len(groundTruth) :
               IF enrichedResults[j].trueLabel # NoLabel
               THEN groundTruth[j] =
                        [label |-> enrichedResults[j].trueLabel, source |-> "trueLabel"]
               ELSE groundTruth[j] =
                        [label |-> IF enrichedResults[j].fraudScore > 70 THEN 1 ELSE 0,
                         source |-> "fraudScore"]

\* a batch analysed in which one transaction carries a trueLabel and another,
\* carrying none, got its ground truth from the heuristic
C15_PartlyLabelledAnalysed ==
    /\ s3pc = "done"
    /\ \E i, j \in 1..Len(groundTruth) :
           /\ groundTruth[i].source = "trueLabel"
           /\ groundTruth[j].source = "fraudScore"

\* a transaction or record with its trueLabel taken away
WithoutLabel(t) == [t EXCEPT !.trueLabel = NoLabel]

\* the input transactions of client c with their labels taken away, in the
\* order processBatchWithFeatures scores them
OwnUnlabelled(c) ==
    LET own == OwnTransactions(c)
    IN  SortByTime([k \in 1..Len(own) |-> WithoutLabel(own[k])])

\* C18: the trueLabel values never influence scoring.  Every record's
\* features, fraudScore, isSuspicious, riskLevel and triggers are those
\* processBatchWithFeatures computes from the batch with its labels taken
\* away, and the isoForestScore and logRegScore written onto it are scores of
\* the record with its label taken away: two batches that differ only in
\* their trueLabel values get the same values.
C18_LabelsNeverInfluenceScoring ==
    s3pc = "done" =>
        \A j \in 1..Len(enrichedResults) :
            LET e == enrichedResults[j]
                own == OwnUnlabelled(e.clientId)
            IN  /\ \E pos \in 1..Len(own) :
                       /\ own[pos].id = e.id
                       /\ IsComputedFrom(WithoutLabel(e), own, pos)
                /\ e.isoForestScore \in IsoScores(WithoutLabel(e))
                /\ e.logRegScore \in LogRegScores(WithoutLabel(e))

\* an analysed batch with two transactions that differ in their labels and
\* got the same scores
C18_SameScoresUnderBothLabels ==
    /\ s3pc = "done"
    /\ \E i, j \in 1..Len(enrichedResults) :
           /\ enrichedResults[i].trueLabel = 1
           /\ enrichedResults[j].trueLabel = 0
           /\ enrichedResults[i].fraudScore = enrichedResults[j].fraudScore
           /\ enrichedResults[i].isoForestScore = enrichedResults[j].isoForestScore
           /\ enrichedResults[i].logRegScore = enrichedResults[j].logRegScore

\* what a step leaves of the records of enrichedResults: their number, their
\* order and every field they had
RecordsKept ==
    /\ Len(enrichedResults') = Len(enrichedResults)
    /\ \A i \in 1..Len(enrichedResults) :
           \A field \in DOMAIN enrichedResults[i] :
               /\ field \in DOMAIN enrichedResults'[i]
               /\ enrichedResults'[i][field] = enrichedResults[i][field]

\* C19 (frame): no step of processBatchWithFeatures changes the input array
\* or a transaction in it, and runStage3Analysis changes the records it is
\* given in one way only: on each, in place and in the order given, it sets
\* isoForestScore and logRegScore to the i-th scores computed
C19_Frame ==
    [][ /\ transactions' = transactions
        /\ s3pc' # s3pc =>
               /\ RecordsKept
               /\ \A i \in 1..Len(enrichedResults) :
                      /\ DOMAIN enrichedResults'[i] =
                             DOMAIN enrichedResults[i] \cup {"isoForestScore", "logRegScore"}
                      /\ enrichedResults'[i].isoForestScore = modelScores'.iso[i]
                      /\ enrichedResults'[i].logRegScore = modelScores'.logReg[i] ]_vars

\* an analysed batch given latest first and by turns: the records are in
\* another order than the input, the input is as it was given
C19_ReorderedBatchAnalysed ==
    /\ s3pc = "done"
    /\ Len(transactions) = 3
    /\ transactions[1].timestamp > transactions[3].timestamp
    /\ transactions[2].clientId = "C2"
    /\ enrichedResults[1].id = 3
    /\ enrichedResults[2].id = 1
    /\ enrichedResults[3].id = 2
    /\ \A i \in 1..3 : transactions[i].id = i

\* the labels of the ground truth
TruthLabels == {groundTruth[j].label : j \in 1..Len(groundTruth)}

\* C27: when no transaction of the batch carries a trueLabel (the ground
\* truth is fraudScore > 0.7 for every record), runStage3Analysis selects
\* bestModel 'Rule-Based'; the rule-based rocAuc is 1 when both classes are
\* present and 0.5 otherwise, and the rule-based recall is 1 whenever there is
\* a positive.
C27_UnlabelledSelectsRuleBased ==
    (s3pc = "done" /\ ~SomeLabelled) =>
        /\ \A j \in 1..Len(groundTruth) :
               groundTruth[j] = [label |-> IF enrichedResults[j].fraudScore > 70 THEN 1 ELSE 0,
                                 source |-> "fraudScore"]
        /\ stage3Results.bestModel = "Rule-Based"
        /\ stage3Results.ruleBased.rocAuc = IF TruthLabels = {0, 1} THEN 10000 ELSE 5000
        /\ 1 \in TruthLabels => stage3Results.ruleBased.recall = 10000

\* an unlabelled batch analysed with both classes in its ground truth, on
\* which another strategy ranks as well as the rules do
C27_BothClassesUnlabelled ==
    /\ s3pc = "done"
    /\ ~SomeLabelled
    /\ TruthLabels = {0, 1}
    /\ stage3Results.ruleBased.rocAuc = 10000
    /\ stage3Results.ruleBased.recall = 10000
    /\ stage3Results.logisticRegression.rocAuc = 10000
    /\ stage3Results.bestModel = "Rule-Based"

\* the list s with the entries at i and j exchanged
Exchanged(s, i, j) ==
    [k \in 1..Len(s) |-> IF k = i THEN s[j] ELSE IF k = j THEN s[i] ELSE s[k]]

\* the rocAuc of each strategy, as calcMetrics computes it from the analysed
\* records with those at i and j exchanged
AucsExchanged(i, j) ==
    LET labels == Exchanged([k \in 1..Len(groundTruth) |-> groundTruth[k].label], i, j)
        aucOf(scoreSeq) ==
            [rocAuc |-> ToFixed4(RocAuc(AucWalk(SortedPairs(Exchanged(scoreSeq, i, j), labels),
                                                0, 0), labels))]
    IN  <<aucOf(modelScores.rule), aucOf(modelScores.iso), aucOf(modelScores.logReg)>>

\* C28 as stated: the evaluation does not depend on the order of the records:
\* from the same enriched records (same scores and ground-truth labels,
\* records of equal scores and different labels included) in another order
\* (here: any two of them exchanged), runStage3Analysis returns the same
\* rocAuc for each strategy and the same bestModel.
C28_OrderOfRecordsIrrelevant ==
    s3pc = "done" =>
        \A i, j \in 1..Len(groundTruth) :
            LET other == AucsExchanged(i, j)
            IN  /\ \A m \in 1..3 : other[m].rocAuc = ModelAucs[m]
                /\ BestModel(other[1], other[2], other[3]) = stage3Results.bestModel

\* two analysed records of one rule score, the first labelled 1 and the second
\* 0: rule-based rocAuc 1, and 0 with the two exchanged
C28_EqualScoresDifferentLabels ==
    /\ s3pc = "done"
    /\ Len(groundTruth) = 2
    /\ groundTruth[1].label = 1
    /\ groundTruth[2].label = 0
    /\ modelScores.rule[1] = modelScores.rule[2]
    /\ stage3Results.ruleBased.rocAuc = 10000
    /\ AucsExchanged(1, 2)[1].rocAuc = 0

(***************************************************************************)
(* Properties of parseCSV (CsvSpec)                                        *)
(***************************************************************************)
\* the lines of the text that are not blank, the header line first
CsvLines == NonBlank(csvText)

\* a cell that is a whole number from end to end
IsNumeral(cell) ==
    /\ cell # NoCell
    /\ cell # <<>>
    /\ LET body == IF Head(cell) \in {"-", "+"} THEN Tail(cell) ELSE cell
       IN  body # <<>> /\ LeadingDigits(body) = body

\* C20: parseCSV never rejects a data row.  For a text with a header line and
\* at least one data row that is not blank it returns one transaction for
\* each such row; a numeric field that is missing, unresolved or malformed
\* gives amount 0 and trueLabel 0, a missing or unresolved nameOrig gives
\* clientId Unknown-<row index>, a missing or unresolved type gives category
\* PAYMENT; and the ids of the transactions returned are all different.
C20_NeverRejectsARow ==
    (csvPc \in {"done", "threw"} /\ Len(CsvLines) >= 2) =>
        /\ csvPc = "done"
        /\ Len(parsed) = Len(CsvLines) - 1
        /\ \A i \in 1..Len(parsed) :
               LET row == CsvLines[i + 1]
                   named == ResolveColumns(Head(CsvLines))
               IN  /\ ~IsNumeral(CellAt(row, named.amount)) => parsed[i].amount = Zero
                   /\ ~IsNumeral(CellAt(row, named.isFraud)) => parsed[i].trueLabel = Zero
                   /\ CellAt(row, named.nameOrig) \in {NoCell, <<>>} =>
                          parsed[i].clientId = <<"Unknown", i - 1>>
                   /\ CellAt(row, named.type) \in {NoCell, <<>>} =>
                          parsed[i].category = <<"P", "A", "Y", "M", "E", "N", "T">>
        /\ \A i, j \in 1..Len(parsed) : i # j => parsed[i].id # parsed[j].id

\* parseCSV threw on the second data row, after the first had been parsed
C20_ThrewOnSecondRow ==
    /\ csvPc = "threw"
    /\ Len(parsed) = 1
    /\ Len(dataLines) = 2

(***************************************************************************)
(* Properties of analyzeTransaction (StreamSpec)                           *)
(***************************************************************************)
\* the record analyzeTransaction returned is the one processBatchWithFeatures
\* computes for txn in the whole history followed by txn
AgreesWithBatch ==
    LET own == SortByTime(GroupOf(history \o <<newTxn>>, newTxn.clientId))
    IN  /\ analysed.id = newTxn.id
        /\ \E pos \in 1..Len(own) :
               own[pos].id = newTxn.id /\ IsComputedFrom(analysed, own, pos)

\* C29 (streaming equals batch): for every history with unique ids and every
\* new transaction txn whose id is not in the history, analyzeTransaction
\* returns a record with id = txn.id whose features, fraudScore,
\* isSuspicious, riskLevel and ruleTriggered equal those of txn's record in
\* processBatchWithFeatures(history followed by txn); filtering the history
\* to txn's client changes nothing.
C29_StreamingEqualsBatch ==
    /\ streamPc # "threw"
    /\ streamPc = "returned" => AgreesWithBatch

\* a call with a transaction of the client named constructor has thrown and
\* returned no record
C29_ThrewOnNewTxn ==
    /\ streamPc = "threw"
    /\ newTxn.clientId = "constructor"
    /\ analysed = NoRecord

(***************************************************************************)
(* Properties of the upload and the live interval (AppSpec)                *)
(***************************************************************************)
\* the strings generateBatchReport puts in place of a report
Placeholders ==
    { "API Key missing. Please configure it in Settings.", "Report generation failed.",
      "Report unavailable. Check your API Key." }

\* reader.onload has no step left: it ran to its end or its promise was
\* rejected
UploadAtRest == upPc \in {"done", "threw"}

\* C21 (the report never blocks the upload): for every upload whose CSV
\* parses to at least one transaction, whether generateBatchReport returns
\* text, finds no API key, or its API call throws, it resolves to a string (a
\* fixed placeholder on failure), and the flow eventually sets isProcessing
\* back to false and publishes an analysis result carrying the Stage3Results
\* computed from the enriched batch.  (Stated of the upload at rest: it has
\* not stopped short of publishing.)
C21_UploadNeverBlocked ==
    (rawTransactions # <<>> /\ UploadAtRest) =>
        /\ ~isProcessing
        /\ showAnalysisModal
        /\ analysisResult.totalProcessed = Len(rawTransactions)
        /\ analysisResult.stage3 = stage3Results
        /\ s3pc = "done"
        /\ analysisResult.reportContent \in Placeholders \cup {GenerateBatchReport(TRUE, "text")}

\* an upload of two parsed transactions has stopped in processBatchWithFeatures
\* with isProcessing still set and no analysis result
C21_StuckProcessing ==
    /\ upPc = "threw"
    /\ Len(rawTransactions) = 2
    /\ rawTransactions[2].clientId = "constructor"
    /\ isProcessing
    /\ analysisResult = NoAnalysis
    /\ ~showAnalysisModal

\* t carries the two scores runStage3Analysis sets
HasModelScores(t) == {"isoForestScore", "logRegScore"} \subseteq DOMAIN t

\* C30 (live ticks and the upload): under every interleaving of live-mode
\* ticks (each prepends one scored transaction to the shared transaction
\* list) with the await points of a batch upload, the records handed to the
\* analysis modal when the upload finishes (the first totalProcessed entries
\* of the transaction list) are exactly the enriched records of the uploaded
\* batch, with isoForestScore and logRegScore populated.
C30_ModalShowsTheBatch ==
    upPc = "done" =>
        /\ modalTransactions = enrichedBatch
        /\ \A i \in 1..Len(modalTransactions) : HasModelScores(modalTransactions[i])

\* the upload of two transactions has finished with a record of the live
\* interval first in the modal's list and the batch's last record left out
C30_LiveRecordInModal ==
    /\ upPc = "done"
    /\ Len(enrichedBatch) = 2
    /\ Len(modalTransactions) = 2
    /\ modalTransactions[1].clientId = "USR-102"
    /\ ~HasModelScores(modalTransactions[1])
    /\ modalTransactions[2] = enrichedBatch[1]

=============================================================================
